---- MODULE Spec2Model ----
(***************************************************************************)
(* Model of plt_MCC.py (MCC plotter): the persisted style allocator, the   *)
(* preference document with its write-through saves, the row table and its *)
(* handlers, and the line-oriented profile parser.                         *)
(*                                                                         *)
(* Conventions                                                             *)
(*  - a Python str that the code inspects character by character (the raw  *)
(*    value handed to the allocators) is a sequence of one-character       *)
(*    strings; a str the code only stores, compares or looks up is a TLA+  *)
(*    string;                                                              *)
(*  - a line of an .mcc file is a sequence of lexemes: whole words and      *)
(*    single blanks, so that strip() and split() have work to do;          *)
(*  - a Python dict is a function; its keys are its DOMAIN;                *)
(*  - a Python float that only ever holds the small whole numbers of the   *)
(*    enumerated inputs is an integer;                                     *)
(*  - a depth in mm is an integer number of hundredths of a millimetre and *)
(*    a depth in cm an integer number of hundredths of a centimetre, so    *)
(*    that the rounding to 2 decimals and the rendering with 1 decimal     *)
(*    have work to do.                                                     *)
(***************************************************************************)
EXTENDS Integers, Sequences, FiniteSets, TLC

VARIABLES
    prefs,            \* self.prefs: the in-memory preference document
    disk,             \* content of PREFS_PATH, the durable store
    rows,             \* self.rows: one entry per loaded file
    measure_type,     \* self.measure_type (tk.StringVar)
    color_var_name,   \* self.color_var_name (tk.StringVar)
    marker_var_name,  \* self.marker_var_name (tk.StringVar)
    normalize_var,    \* self.normalize_var (tk.BooleanVar)
    profile_inplane_var,     \* self.profile_inplane_var (tk.BooleanVar)
    profile_crossplane_var,  \* self.profile_crossplane_var (tk.BooleanVar)
    custom_title_var, \* self.custom_title_var (tk.StringVar)
    call,             \* the allocator call that just returned: arguments and result
    lines,            \* parse_mcc_profiles_all: the lines of the file
    nread,            \* number of lines the for loop has been through
    pc,               \* "idle": not called, "loop": in the for loop, "done": returned
    current_kind,     \* parse_mcc_profiles_all: current_kind
    current_depth,    \* parse_mcc_profiles_all: current_depth
    in_data,          \* parse_mcc_profiles_all: in_data
    xs,               \* parse_mcc_profiles_all: xs
    ys,               \* parse_mcc_profiles_all: ys
    result,           \* parse_mcc_profiles_all: result
    fn_args,          \* the arguments of the module-level function being called
    fn_ret,           \* the value it returned
    fn_pc             \* "idle": no call, "called": in the call, "returned"

optVars == <<measure_type, color_var_name, marker_var_name, normalize_var,
             profile_inplane_var, profile_crossplane_var, custom_title_var>>

guiVars == <<prefs, disk, rows, optVars, call>>

localVars == <<current_kind, current_depth, in_data, xs, ys, result>>

parseVars == <<lines, nread, pc, localVars>>

funVars == <<fn_args, fn_ret, fn_pc>>

(***************************************************************************)
(* Constants of the program                                                *)
(***************************************************************************)
MEASURE_PDD == "pdd"
MEASURE_PROFILE == "profil"
DEFAULT_MEASURE_TYPE == MEASURE_PDD
DEFAULT_COLOR_VAR == "detector"
DEFAULT_MARKER_VAR == ""
DEFAULT_NORMALIZE == TRUE
DEFAULT_PROFILE_INPLANE == TRUE
DEFAULT_PROFILE_CROSSPLANE == TRUE
DEFAULT_CUSTOM_TITLE == ""
DEFAULT_LINESTYLE == "-"

OKABE_ITO ==
    << "#0072B2", "#E69F00", "#009E73", "#D55E00",
       "#CC79A7", "#56B4E9", "#F0E442", "#000000" >>

MARKER_POOL == << "o", "s", "^", "v", "d", "p", "h", "x", "*", "+", "<", ">", "." >>

PARAMS ==
    << "detector", "energy", "ssd", "depth", "dose_rate", "step",
       "integration", "gantry", "jaw_xy", "fov", "Orientation" >>

ParamKeys == { PARAMS[i] : i \in 1..Len(PARAMS) }

(***************************************************************************)
(* Generic helpers                                                         *)
(***************************************************************************)
Range(f) == { f[x] : x \in DOMAIN f }

EmptyDict == [ x \in {} |-> "" ]

\* d[k] = v on a Python dict
DictSet(d, k, v) == [ x \in (DOMAIN d) \cup {k} |-> IF x = k THEN v ELSE d[x] ]

\* d.setdefault(k, v)
DictSetDefault(d, k, v) == IF k \in DOMAIN d THEN d ELSE DictSet(d, k, v)

(***************************************************************************)
(* str.strip() and str.lower() on character sequences                      *)
(***************************************************************************)
IsSpace(c) == c = " "

Lower(c) ==
    CASE c = "A" -> "a"
      [] c = "F" -> "f"
      [] c = "M" -> "m"
      [] c = "O" -> "o"
      [] c = "V" -> "v"
      [] OTHER -> c

RECURSIVE LStrip(_)
LStrip(s) == IF s # <<>> /\ IsSpace(Head(s)) THEN LStrip(Tail(s)) ELSE s

RECURSIVE RStrip(_)
RStrip(s) ==
    IF s # <<>> /\ IsSpace(s[Len(s)]) THEN RStrip(SubSeq(s, 1, Len(s) - 1)) ELSE s

StrStrip(s) == RStrip(LStrip(s))

StrLower(s) == [ i \in 1..Len(s) |-> Lower(s[i]) ]

\* a mutant of _normalize_key: trims but keeps the case
NormalizeKeepCase(text) == StrStrip(text)

\* MCCPlotterGUI._normalize_key
_normalize_key(text) == StrLower(StrStrip(text))

(***************************************************************************)
(* Preference document                                                     *)
(***************************************************************************)
\* _default_prefs
_default_prefs ==
    [ files |-> EmptyDict,
      glob  |-> [ measure_type       |-> DEFAULT_MEASURE_TYPE,
                  normalize          |-> DEFAULT_NORMALIZE,
                  profile_inplane    |-> DEFAULT_PROFILE_INPLANE,
                  profile_crossplane |-> DEFAULT_PROFILE_CROSSPLANE,
                  custom_title       |-> DEFAULT_CUSTOM_TITLE,
                  color_variable     |-> DEFAULT_COLOR_VAR,
                  marker_variable    |-> DEFAULT_MARKER_VAR,
                  color_maps         |-> EmptyDict,
                  marker_maps        |-> EmptyDict ] ]

\* save_prefs: json.dump of the whole document over the previous file content
save_prefs(p, old) == p

(***************************************************************************)
(* Style allocator                                                         *)
(***************************************************************************)
\* the `for val in pool` loop of _next_from_pool from position i on:
\* the index of the first symbol not in used_set, 0 when the loop runs out
RECURSIVE ScanPool(_, _, _)
ScanPool(used_set, pool, i) ==
    IF i > Len(pool) THEN 0
    ELSE IF pool[i] \notin used_set THEN i
    ELSE ScanPool(used_set, pool, i + 1)

Max2(a, b) == IF a >= b THEN a ELSE b

\* a mutant of _next_from_pool: the scan runs from the end of the pool
NextFromPoolReversed(used_set, pool) ==
    LET free == { i \in 1..Len(pool) : pool[i] \notin used_set } IN
    IF free # {} THEN pool[CHOOSE i \in free : \A j \in free : j <= i]
    ELSE pool[(Cardinality(used_set) % Max2(1, Len(pool))) + 1]

\* MCCPlotterGUI._next_from_pool (sequences are 1-based: pool_list[k] is pool[k + 1])
_next_from_pool(used_set, pool) ==
    LET i == ScanPool(used_set, pool, 1) IN
    IF i # 0 THEN pool[i]
    ELSE pool[(Cardinality(used_set) % Max2(1, Len(pool))) + 1]

\* a mutant of _get_color_for: the namespace map is rebuilt around the new entry
GetColorForRebuild(p, old, param_name, value) ==
    LET key      == IF param_name # "" THEN param_name ELSE "default"
        maps     == DictSetDefault(p.glob.color_maps, key, EmptyDict)
        norm_val == _normalize_key(value)
    IN  IF norm_val \notin DOMAIN maps[key]
        THEN LET sym  == _next_from_pool(Range(maps[key]), OKABE_ITO)
                 p2   == [ p EXCEPT !.glob.color_maps =
                               DictSet(maps, key, DictSet(EmptyDict, norm_val, sym)) ]
             IN  [ prefs |-> p2, disk |-> save_prefs(p2, old), ret |-> sym ]
        ELSE [ prefs |-> p, disk |-> old, ret |-> maps[key][norm_val] ]

\* a mutant of _get_color_for: the new entry is written under every namespace
GetColorForShared(p, old, param_name, value) ==
    LET key      == IF param_name # "" THEN param_name ELSE "default"
        maps     == DictSetDefault(p.glob.color_maps, key, EmptyDict)
        norm_val == _normalize_key(value)
    IN  IF norm_val \notin DOMAIN maps[key]
        THEN LET sym  == _next_from_pool(Range(maps[key]), OKABE_ITO)
                 p2   == [ p EXCEPT !.glob.color_maps =
                               [ k \in DOMAIN maps |-> DictSet(maps[k], norm_val, sym) ] ]
             IN  [ prefs |-> p2, disk |-> save_prefs(p2, old), ret |-> sym ]
        ELSE [ prefs |-> p, disk |-> old, ret |-> maps[key][norm_val] ]

\* MCCPlotterGUI._get_color_for on document p with file content old:
\* the document and the file after the call, and the returned symbol
_get_color_for(p, old, param_name, value) ==
    LET key      == IF param_name # "" THEN param_name ELSE "default"
        maps     == DictSetDefault(p.glob.color_maps, key, EmptyDict)
        norm_val == _normalize_key(value)
        param_map == maps[key]
    IN  IF norm_val \notin DOMAIN param_map
        THEN LET used == Range(param_map)
                 sym  == _next_from_pool(used, OKABE_ITO)
                 p2   == [ p EXCEPT !.glob.color_maps =
                               DictSet(maps, key, DictSet(param_map, norm_val, sym)) ]
             IN  [ prefs |-> p2, disk |-> save_prefs(p2, old), ret |-> sym ]
        ELSE [ prefs |-> [ p EXCEPT !.glob.color_maps = maps ],
               disk  |-> old,
               ret   |-> param_map[norm_val] ]

\* a mutant of _get_marker_for: the empty namespace is allocated like any other
GetMarkerForNoDefault(p, old, param_name, value) ==
    LET maps     == DictSetDefault(p.glob.marker_maps, param_name, EmptyDict)
        norm_val == _normalize_key(value)
        param_map == maps[param_name]
    IN  IF norm_val \notin DOMAIN param_map
        THEN LET sym  == _next_from_pool(Range(param_map), MARKER_POOL)
                 p2   == [ p EXCEPT !.glob.marker_maps =
                               DictSet(maps, param_name, DictSet(param_map, norm_val, sym)) ]
             IN  [ prefs |-> p2, disk |-> save_prefs(p2, old), ret |-> sym ]
        ELSE [ prefs |-> p, disk |-> old, ret |-> param_map[norm_val] ]

\* MCCPlotterGUI._get_marker_for
_get_marker_for(p, old, param_name, value) ==
    IF param_name = ""
    THEN [ prefs |-> p, disk |-> old, ret |-> "o" ]
    ELSE
    LET maps     == DictSetDefault(p.glob.marker_maps, param_name, EmptyDict)
        norm_val == _normalize_key(value)
        param_map == maps[param_name]
    IN  IF norm_val \notin DOMAIN param_map
        THEN LET used == Range(param_map)
                 sym  == _next_from_pool(used, MARKER_POOL)
                 p2   == [ p EXCEPT !.glob.marker_maps =
                               DictSet(maps, param_name, DictSet(param_map, norm_val, sym)) ]
             IN  [ prefs |-> p2, disk |-> save_prefs(p2, old), ret |-> sym ]
        ELSE [ prefs |-> [ p EXCEPT !.glob.marker_maps = maps ],
               disk  |-> old,
               ret   |-> param_map[norm_val] ]

(***************************************************************************)
(* The files the user can load.  Their content is an input of the program: *)
(*   a.mcc  a profile file.  Header: ENERGY=6, SSD=900, FIELD_INPLANE=100, *)
(*          FIELD_CROSSPLANE=100; an inplane curve at SCAN_DEPTH=50 and a  *)
(*          crossplane curve at SCAN_DEPTH=100.                            *)
(*   b.mcc  a depth-dose file.  No header key the derivations know, one    *)
(*          data block under SCAN_CURVETYPE=PDD, so no profile curve.      *)
(* The operators below give what the parser and the derivation engine      *)
(* return for these two files.                                             *)
(***************************************************************************)
FilePaths == { "a.mcc", "b.mcc" }

\* depth_mm of the curves of parse_mcc_profiles_all(path), inplane list first:
\* 50.00 mm and 100.00 mm
FileDepthsMm(path) == IF path = "a.mcc" THEN << 5000, 10000 >> ELSE << >>

\* _fov_at_depth_str(meta, depth): with SSD and both field sizes known and no
\* FIELD_DEFINED key the reference plane is SSD + depth, and the field of view
\* is the raw field size; without SSD it is None (the empty text here)
FileFovAtDepth(path, depth_cm) == IF path = "a.mcc" THEN "10.00*10.00" ELSE ""

\* sorted(set) of a set of integers
RECURSIVE SortedSeq(_)
SortedSeq(S) ==
    IF S = {} THEN << >>
    ELSE LET m == CHOOSE x \in S : \A y \in S : x <= y
         IN  << m >> \o SortedSeq(S \ {m})

\* round(mm / 10.0, 2): the depth in cm to the nearest hundredth (no input
\* lies half-way between two hundredths)
RoundCm2(depth_mm) == (depth_mm + 5) \div 10

\* _unique_depths_cm_from_mm, and the same expression in map_meta_to_params
\* and _ensure_profile_depths_loaded
_unique_depths_cm_from_mm(depths_mm) ==
    SortedSeq({ RoundCm2(depths_mm[i]) : i \in 1..Len(depths_mm) })

\* f"{v:.1f}" of a depth in cm: to the nearest tenth (no input lies half-way
\* between two tenths)
FmtCm1(depth_cm) ==
    LET tenths == (depth_cm + 5) \div 10
    IN  ToString(tenths \div 10) \o "." \o ToString(tenths % 10)

\* sep.join(parts)
RECURSIVE Join(_, _)
Join(parts, sep) ==
    IF parts = << >> THEN ""
    ELSE IF Len(parts) = 1 THEN parts[1]
    ELSE parts[1] \o sep \o Join(Tail(parts), sep)

\* SelectSeq with a named test: the entries of seq that are not the empty text
NonEmptyTexts(seq) == SelectSeq(seq, LAMBDA t : t # "")

\* _fov_string_from(meta, depths_mm) for the file at path; None is the empty text
_fov_string_from(path, depths_mm) ==
    LET depths == _unique_depths_cm_from_mm(depths_mm)
        parts  == [ i \in 1..Len(depths) |->
                      IF FileFovAtDepth(path, depths[i]) # ""
                      THEN "@" \o FmtCm1(depths[i]) \o " cm : "
                               \o FileFovAtDepth(path, depths[i])
                      ELSE "" ]
    IN  Join(NonEmptyTexts(parts), " ; ")

\* the depth text of map_meta_to_params and _ensure_profile_depths_loaded:
\* ", ".join(f"{v:.1f}" for v in sorted({round(mm / 10.0, 2) ...}))
DepthEntries(depths_mm) ==
    LET uniq_cm == _unique_depths_cm_from_mm(depths_mm)
    IN  [ i \in 1..Len(uniq_cm) |-> FmtCm1(uniq_cm[i]) ]

DepthText(depths_mm) == Join(DepthEntries(depths_mm), ", ")

NoParams == [ k \in ParamKeys |-> "" ]

\* map_meta_to_params(meta, depths_mm, measure_kind) for the file at path;
\* a key the derivation leaves out holds the empty text
map_meta_to_params(path, depths_mm, measure_kind) ==
    IF path = "a.mcc"
    THEN [ NoParams EXCEPT
             !["depth"]  = DepthText(depths_mm),
             !["ssd"]    = "90",
             !["energy"] = "6",
             !["jaw_xy"] = "10.53*10.53",
             !["fov"]    = _fov_string_from(path, depths_mm) ]
    ELSE [ NoParams EXCEPT !["depth"] = DepthText(depths_mm) ]

(***************************************************************************)
(* Texts the user can type in the edit panel, and what the code's          *)
(* conversions make of them                                                *)
(***************************************************************************)
\* str.strip() on the texts of the panel
TextStrip(t) ==
    CASE t = " 5.0 " -> "5.0"
      [] t = " fov " -> "fov"
      [] OTHER -> t

\* float(text) on the texts of the inputs: ok is FALSE where Python raises
\* ValueError
PyFloat(t) ==
    CASE t = "0" -> [ ok |-> TRUE, v |-> 0 ]
      [] t = "1" -> [ ok |-> TRUE, v |-> 1 ]
      [] t = "2" -> [ ok |-> TRUE, v |-> 2 ]
      [] t = "5" -> [ ok |-> TRUE, v |-> 5 ]
      [] t = "50" -> [ ok |-> TRUE, v |-> 50 ]
      [] t = "100" -> [ ok |-> TRUE, v |-> 100 ]
      [] OTHER   -> [ ok |-> FALSE, v |-> 0 ]

\* the depth loop of apply_edit: the parts of the CSV text that _as_float
\* accepts, each times 10 (cm -> mm)
ManualDepthsMm(depth_csv) ==
    CASE depth_csv = "5.0"       -> << 5000 >>
      [] depth_csv = "5.0, 10.0" -> << 5000, 10000 >>
      [] OTHER                   -> << >>

(***************************************************************************)
(* Per-file persistence                                                    *)
(***************************************************************************)
\* a mutant of _save_file_block: the block is written with the defaults of a
\* new row instead of the values of the row
SaveFileBlockDefaults(p, file_key, content) ==
    LET block == [ x_shift   |-> 0,
                   y_scale   |-> 1,
                   y_offset  |-> 0,
                   include   |-> TRUE,
                   linestyle |-> DEFAULT_LINESTYLE,
                   params    |-> NoParams ]
    IN  [ p EXCEPT !.files = DictSet(p.files, file_key, block) ]

\* MCCPlotterGUI._save_file_block: the document with the block of the row stored
_save_file_block(p, file_key, content) ==
    LET block == [ x_shift   |-> content.x_shift,
                   y_scale   |-> content.y_scale,
                   y_offset  |-> content.y_offset,
                   include   |-> content.include,
                   linestyle |-> content.linestyle,
                   params    |-> content.params ]
    IN  [ p EXCEPT !.files = DictSet(p.files, file_key, block) ]

\* a mutant of NewRow: the derived values are written over the persisted ones
NewRowDerivedWins(p, path, measure_kind) ==
    LET hasSaved == path \in DOMAIN p.files
        saved    == p.files[path]
        auto     == map_meta_to_params(path, FileDepthsMm(path), measure_kind)
        fromJson == [ k \in ParamKeys |->
                        IF hasSaved /\ TextStrip(saved.params[k]) # ""
                        THEN saved.params[k] ELSE "" ]
    IN  [ path      |-> path,
          x_shift   |-> IF hasSaved THEN saved.x_shift ELSE 0,
          y_scale   |-> IF hasSaved THEN saved.y_scale ELSE 1,
          y_offset  |-> IF hasSaved THEN saved.y_offset ELSE 0,
          include   |-> IF hasSaved THEN saved.include ELSE TRUE,
          linestyle |-> IF hasSaved THEN saved.linestyle ELSE DEFAULT_LINESTYLE,
          params    |-> [ k \in ParamKeys |->
                            IF auto[k] # "" THEN auto[k] ELSE fromJson[k] ] ]

\* the row add_files builds for one path: defaults, then the persisted block
\* (non-empty text fields win), then the derived values into the empty fields
NewRow(p, path, measure_kind) ==
    LET hasSaved == path \in DOMAIN p.files
        saved    == p.files[path]
        auto     == map_meta_to_params(path, FileDepthsMm(path), measure_kind)
        fromJson == [ k \in ParamKeys |->
                        IF hasSaved /\ TextStrip(saved.params[k]) # ""
                        THEN saved.params[k] ELSE "" ]
    IN  [ path      |-> path,
          x_shift   |-> IF hasSaved THEN saved.x_shift ELSE 0,
          y_scale   |-> IF hasSaved THEN saved.y_scale ELSE 1,
          y_offset  |-> IF hasSaved THEN saved.y_offset ELSE 0,
          include   |-> IF hasSaved THEN saved.include ELSE TRUE,
          linestyle |-> IF hasSaved THEN saved.linestyle ELSE DEFAULT_LINESTYLE,
          params    |-> [ k \in ParamKeys |->
                            IF TextStrip(fromJson[k]) = "" /\ auto[k] # ""
                            THEN auto[k] ELSE fromJson[k] ] ]

\* MCCPlotterGUI.add_files for the paths the dialog returned
RECURSIVE add_files(_, _, _, _)
add_files(rs, p, paths, measure_kind) ==
    IF paths = << >> THEN rs
    ELSE add_files(Append(rs, NewRow(p, Head(paths), measure_kind)), p,
                   Tail(paths), measure_kind)

\* the depth edit of apply_edit: a depth text with usable parts recomputes the
\* aggregated field-of-view text, which replaces the field when it is not empty
RecomputeFov(row) ==
    LET manual_depths_mm == ManualDepthsMm(row.params["depth"])
        fov_txt == IF manual_depths_mm # << >>
                   THEN _fov_string_from(row.path, manual_depths_mm) ELSE ""
    IN  IF fov_txt # "" THEN [ row EXCEPT !.params["fov"] = fov_txt ] ELSE row

\* a mutant of apply_edit: the row is stored in the document but not written out
ApplyEditNoSave(rs, p, old, idx, panel) ==
    IF idx = 0 \/ ~PyFloat(panel.x_shift).ok \/ ~PyFloat(panel.y_scale).ok
               \/ ~PyFloat(panel.y_offset).ok
    THEN [ rows |-> rs, prefs |-> p, disk |-> old ]
    ELSE LET row2 == RecomputeFov(
                       [ rs[idx] EXCEPT !.x_shift = PyFloat(panel.x_shift).v,
                                        !.y_scale = PyFloat(panel.y_scale).v,
                                        !.y_offset = PyFloat(panel.y_offset).v,
                                        !.include = panel.include,
                                        !.params = [ k \in ParamKeys |->
                                                       TextStrip(panel.params[k]) ] ])
         IN  [ rows |-> [ rs EXCEPT ![idx] = row2 ],
               prefs |-> _save_file_block(p, row2.path, row2),
               disk |-> old ]

\* a mutant of apply_edit: the texts of the panel are taken into the row before
\* the three numbers are validated
ApplyEditTextsFirst(rs, p, old, idx, panel) ==
    IF idx = 0 THEN [ rows |-> rs, prefs |-> p, disk |-> old ]
    ELSE LET row0 == [ rs[idx] EXCEPT !.include = panel.include,
                                      !.params = [ k \in ParamKeys |->
                                                     TextStrip(panel.params[k]) ] ]
         IN  IF ~PyFloat(panel.x_shift).ok \/ ~PyFloat(panel.y_scale).ok
                \/ ~PyFloat(panel.y_offset).ok
             THEN [ rows |-> [ rs EXCEPT ![idx] = row0 ], prefs |-> p, disk |-> old ]
             ELSE LET row2 == RecomputeFov(
                                [ row0 EXCEPT !.x_shift = PyFloat(panel.x_shift).v,
                                              !.y_scale = PyFloat(panel.y_scale).v,
                                              !.y_offset = PyFloat(panel.y_offset).v ])
                      p2   == _save_file_block(p, row2.path, row2)
                  IN  [ rows |-> [ rs EXCEPT ![idx] = row2 ],
                        prefs |-> p2,
                        disk |-> save_prefs(p2, old) ]

\* MCCPlotterGUI.apply_edit; idx = 0 stands for no selected row
apply_edit(rs, p, old, idx, panel) ==
    IF idx = 0 THEN [ rows |-> rs, prefs |-> p, disk |-> old ]
    ELSE IF ~PyFloat(panel.x_shift).ok \/ ~PyFloat(panel.y_scale).ok
            \/ ~PyFloat(panel.y_offset).ok
    THEN [ rows |-> rs, prefs |-> p, disk |-> old ]
    ELSE LET row1 == [ rs[idx] EXCEPT !.x_shift = PyFloat(panel.x_shift).v,
                                      !.y_scale = PyFloat(panel.y_scale).v,
                                      !.y_offset = PyFloat(panel.y_offset).v,
                                      !.include = panel.include,
                                      !.params = [ k \in ParamKeys |->
                                                     TextStrip(panel.params[k]) ] ]
             row2 == RecomputeFov(row1)
             p2   == _save_file_block(p, row2.path, row2)
         IN  [ rows |-> [ rs EXCEPT ![idx] = row2 ],
               prefs |-> p2,
               disk |-> save_prefs(p2, old) ]

\* the loop of _set_include_for_indices over the indices still to do
RECURSIVE SetIncludeLoop(_, _, _, _)
SetIncludeLoop(rs, p, indices, value) ==
    IF indices = << >> THEN [ rows |-> rs, prefs |-> p ]
    ELSE LET idx == Head(indices)
             row == [ rs[idx] EXCEPT !.include = value ]
         IN  SetIncludeLoop([ rs EXCEPT ![idx] = row ],
                            _save_file_block(p, row.path, row),
                            Tail(indices), value)

\* MCCPlotterGUI._set_include_for_indices
_set_include_for_indices(rs, p, old, indices, value) ==
    LET r == SetIncludeLoop(rs, p, indices, value)
    IN  [ rows |-> r.rows, prefs |-> r.prefs, disk |-> save_prefs(r.prefs, old) ]

\* MCCPlotterGUI.toggle_selected
toggle_selected(rs, p, old, idxs) ==
    IF idxs = << >> THEN [ rows |-> rs, prefs |-> p, disk |-> old ]
    ELSE _set_include_for_indices(rs, p, old, idxs, ~rs[idxs[1]].include)

\* the loop of invert_all from index idx on
RECURSIVE InvertLoop(_, _, _)
InvertLoop(rs, p, idx) ==
    IF idx > Len(rs) THEN [ rows |-> rs, prefs |-> p ]
    ELSE LET row == [ rs[idx] EXCEPT !.include = ~rs[idx].include ]
         IN  InvertLoop([ rs EXCEPT ![idx] = row ],
                        _save_file_block(p, row.path, row), idx + 1)

\* MCCPlotterGUI.invert_all
invert_all(rs, p, old) ==
    LET r == InvertLoop(rs, p, 1)
    IN  [ rows |-> r.rows, prefs |-> r.prefs, disk |-> save_prefs(r.prefs, old) ]

\* the rows that stay after remove_selected deletes the selected indices
remove_selected(rs, idxs) ==
    LET keep == { i \in 1..Len(rs) : i \notin Range(idxs) }
        order == SortedSeq(keep)
    IN  [ i \in 1..Len(order) |-> rs[order[i]] ]

\* the loop of _ensure_profile_depths_loaded from row i on
RECURSIVE EnsureLoop(_, _, _, _)
EnsureLoop(rs, p, i, changed) ==
    IF i > Len(rs) THEN [ rows |-> rs, prefs |-> p, changed |-> changed ]
    ELSE LET row == rs[i]
             need_depth_cell == TextStrip(row.params["depth"]) = ""
             depths_mm_all == FileDepthsMm(row.path)
         IN  IF depths_mm_all # << >> /\ need_depth_cell
             THEN LET fov_txt == _fov_string_from(row.path, depths_mm_all)
                      row1 == [ row EXCEPT !.params["depth"] = DepthText(depths_mm_all) ]
                      row2 == IF fov_txt # ""
                              THEN [ row1 EXCEPT !.params["fov"] = fov_txt ] ELSE row1
                  IN  EnsureLoop([ rs EXCEPT ![i] = row2 ],
                                 _save_file_block(p, row2.path, row2), i + 1, TRUE)
             ELSE EnsureLoop(rs, p, i + 1, changed)

\* MCCPlotterGUI._ensure_profile_depths_loaded
_ensure_profile_depths_loaded(rs, p, old) ==
    LET r == EnsureLoop(rs, p, 1, FALSE)
    IN  [ rows |-> r.rows, prefs |-> r.prefs,
          disk |-> IF r.changed THEN save_prefs(r.prefs, old) ELSE old ]

\* a mutant of _on_var_change: the marker variable is stored as chosen
OnVarChangeKeepMarker(rs, p, old, o) ==
    LET sec == o.marker_var_name
        p2 == [ p EXCEPT !.glob.measure_type = o.measure_type,
                         !.glob.normalize = o.normalize_var,
                         !.glob.profile_inplane = o.profile_inplane_var,
                         !.glob.profile_crossplane = o.profile_crossplane_var,
                         !.glob.custom_title = o.custom_title_var,
                         !.glob.color_variable = o.color_var_name,
                         !.glob.marker_variable = sec ]
        d2 == save_prefs(p2, old)
    IN  IF o.measure_type = MEASURE_PROFILE
        THEN _ensure_profile_depths_loaded(rs, p2, d2)
        ELSE [ rows |-> rs, prefs |-> p2, disk |-> d2 ]

\* MCCPlotterGUI.__init__._on_var_change, o holding the values of the tk variables
_on_var_change(rs, p, old, o) ==
    LET sec == o.marker_var_name
        p2 == [ p EXCEPT !.glob.measure_type = o.measure_type,
                         !.glob.normalize = o.normalize_var,
                         !.glob.profile_inplane = o.profile_inplane_var,
                         !.glob.profile_crossplane = o.profile_crossplane_var,
                         !.glob.custom_title = o.custom_title_var,
                         !.glob.color_variable = o.color_var_name,
                         !.glob.marker_variable =
                             IF sec # "" /\ sec # o.color_var_name THEN sec ELSE "" ]
        d2 == save_prefs(p2, old)
    IN  IF o.measure_type = MEASURE_PROFILE
        THEN _ensure_profile_depths_loaded(rs, p2, d2)
        ELSE [ rows |-> rs, prefs |-> p2, disk |-> d2 ]

(***************************************************************************)
(* parse_mcc_profiles_all: the profile parser                              *)
(***************************************************************************)
\* str.upper() on the words the files hold
Upper(w) ==
    CASE w = "inplane_profile"    -> "INPLANE_PROFILE"
      [] w = "crossplane_profile" -> "CROSSPLANE_PROFILE"
      [] w = "pdd"                -> "PDD"
      [] OTHER                    -> w

StrUpper(s) == [ i \in 1..Len(s) |-> Upper(s[i]) ]

\* line.startswith(prefix), for a prefix that is one lexeme
StartsWith(line, prefix) == line # << >> /\ Head(line) = prefix

\* word in line
Contains(line, word) == \E i \in 1..Len(line) : line[i] = word

\* line.split("=", 1)[1] of a line that starts with a "KEY=" lexeme
AfterEq(line) == Tail(line)

\* line.split(): the maximal runs of lexemes between blanks; cur is the run
\* being read and out the runs already closed
RECURSIVE SplitFrom(_, _, _)
SplitFrom(s, cur, out) ==
    IF s = << >>
    THEN IF cur = << >> THEN out ELSE Append(out, cur)
    ELSE IF IsSpace(Head(s))
         THEN SplitFrom(Tail(s), << >>, IF cur = << >> THEN out ELSE Append(out, cur))
         ELSE SplitFrom(Tail(s), Append(cur, Head(s)), out)

Split(s) == SplitFrom(s, << >>, << >>)

\* Python None where a float is expected
NoneFloat == [ ok |-> FALSE, v |-> 0 ]

\* Python None where an orientation is expected
NoneKind == "None"

\* float(text) of a text given as lexemes: a number only when it is one
\* numeric word, ValueError (ok = FALSE) otherwise
FloatOf(text) == IF Len(text) = 1 THEN PyFloat(text[1]) ELSE NoneFloat

\* a mutant of CurveKind: tests the substring "PLANE_PROFILE" only
CurveKindAnyPlane(val) ==
    IF Contains(val, "INPLANE_PROFILE") \/ Contains(val, "CROSSPLANE_PROFILE")
    THEN "inplane"
    ELSE NoneKind

\* a mutant of CurveKind: a value that names no profile counts as inplane
CurveKindElseInplane(val) ==
    IF Contains(val, "CROSSPLANE_PROFILE") THEN "crossplane" ELSE "inplane"

\* the orientation named by the upper-cased value of SCAN_CURVETYPE
CurveKind(val) ==
    IF Contains(val, "INPLANE_PROFILE") THEN "inplane"
    ELSE IF Contains(val, "CROSSPLANE_PROFILE") THEN "crossplane"
    ELSE NoneKind

\* the locals of parse_mcc_profiles_all after the assignments that precede the loop
ParserStart ==
    [ current_kind  |-> NoneKind,
      current_depth |-> NoneFloat,
      in_data       |-> FALSE,
      xs            |-> << >>,
      ys            |-> << >>,
      result        |-> [ k \in { "inplane", "crossplane" } |-> << >> ] ]

\* a mutant of commit: pushes the buffers whatever they hold
CommitUnchecked(st) ==
    LET res == IF st.current_kind \in { "inplane", "crossplane" }
               THEN [ st.result EXCEPT ![st.current_kind] =
                        Append(@, [ depth_mm |-> st.current_depth,
                                    xs       |-> st.xs,
                                    ys       |-> st.ys ]) ]
               ELSE st.result
    IN  [ st EXCEPT !.result = res, !.xs = << >>, !.ys = << >> ]

\* the inner function commit(): pushes the curve collected in xs, ys and
\* empties the two buffers
commit(st) ==
    LET res == IF /\ st.current_kind \in { "inplane", "crossplane" }
                  /\ st.xs # << >>
                  /\ st.ys # << >>
               THEN [ st.result EXCEPT ![st.current_kind] =
                        Append(@, [ depth_mm |-> st.current_depth,
                                    xs       |-> st.xs,
                                    ys       |-> st.ys ]) ]
               ELSE st.result
    IN  [ st EXCEPT !.result = res, !.xs = << >>, !.ys = << >> ]

\* the last branch of the loop body on the tokens of a data line: xs.append
\* has run when float(parts[1]) raises, and the except clause undoes nothing
DataLine(st, parts) ==
    IF Len(parts) >= 2
    THEN LET x == FloatOf(parts[1])
             y == FloatOf(parts[2])
         IN  IF ~ x.ok THEN st
             ELSE IF ~ y.ok THEN [ st EXCEPT !.xs = Append(@, x.v) ]
             ELSE [ st EXCEPT !.xs = Append(@, x.v), !.ys = Append(@, y.v) ]
    ELSE st

\* a mutant of LoopBody: BEGIN_DATA inside a block commits what was collected
LoopBodyBeginCommits(st, raw) ==
    LET line == StrStrip(raw) IN
    IF StartsWith(line, "SCAN_CURVETYPE=")
    THEN LET s1  == IF st.in_data
                    THEN [ commit(st) EXCEPT !.in_data = FALSE ]
                    ELSE st
             val == StrUpper(StrStrip(AfterEq(line)))
         IN  [ s1 EXCEPT !.current_kind = CurveKind(val) ]
    ELSE IF StartsWith(line, "SCAN_DEPTH=")
    THEN [ st EXCEPT !.current_depth = FloatOf(StrStrip(AfterEq(line))) ]
    ELSE IF Contains(line, "BEGIN_DATA")
    THEN [ (IF st.in_data THEN commit(st) ELSE st) EXCEPT
             !.in_data = TRUE, !.xs = << >>, !.ys = << >> ]
    ELSE IF Contains(line, "END_DATA")
    THEN [ (IF st.in_data THEN commit(st) ELSE st) EXCEPT !.in_data = FALSE ]
    ELSE IF st.in_data /\ st.current_kind # NoneKind
    THEN DataLine(st, Split(line))
    ELSE st

\* one pass of the for loop, on the line raw
LoopBody(st, raw) ==
    LET line == StrStrip(raw) IN
    IF StartsWith(line, "SCAN_CURVETYPE=")
    THEN LET s1  == IF st.in_data
                    THEN [ commit(st) EXCEPT !.in_data = FALSE ]
                    ELSE st
             val == StrUpper(StrStrip(AfterEq(line)))
         IN  [ s1 EXCEPT !.current_kind = CurveKind(val) ]
    ELSE IF StartsWith(line, "SCAN_DEPTH=")
    THEN [ st EXCEPT !.current_depth = FloatOf(StrStrip(AfterEq(line))) ]
    ELSE IF Contains(line, "BEGIN_DATA")
    THEN [ st EXCEPT !.in_data = TRUE, !.xs = << >>, !.ys = << >> ]
    ELSE IF Contains(line, "END_DATA")
    THEN [ (IF st.in_data THEN commit(st) ELSE st) EXCEPT !.in_data = FALSE ]
    ELSE IF st.in_data /\ st.current_kind # NoneKind
    THEN DataLine(st, Split(line))
    ELSE st

\* result.pop(key) for the orientations left without a curve
PopEmpty(res) ==
    [ k \in { o \in DOMAIN res : res[o] # << >> } |-> res[k] ]

\* a mutant of AfterLoop: returns without the last commit
AfterLoopNoCommit(st) == [ st EXCEPT !.result = PopEmpty(st.result) ]

\* what follows the loop: the last commit and the two pops
AfterLoop(st) ==
    LET s1 == IF st.in_data THEN commit(st) ELSE st
    IN  [ s1 EXCEPT !.result = PopEmpty(s1.result) ]

(***************************************************************************)
(* parse_mcc_pdd                                                           *)
(***************************************************************************)
\* the position of the first line that holds word, 0 where next() raises
\* StopIteration
FirstWith(ls, word) ==
    IF \E i \in 1..Len(ls) : Contains(ls[i], word)
    THEN CHOOSE i \in 1..Len(ls) :
            Contains(ls[i], word) /\ \A j \in 1..(i - 1) : ~ Contains(ls[j], word)
    ELSE 0

\* Python None where a list is expected, and a list that is there
NoneList == [ some |-> FALSE, v |-> << >> ]
SomeList(l) == [ some |-> TRUE, v |-> l ]

\* (l or None) on a list
OrNone(l) == IF l # << >> THEN SomeList(l) ELSE NoneList

\* the loop of parse_mcc_pdd over the lines ls[i..j]; acc holds xs and ys.
\* As in the profile parser, xs.append has run when float(parts[1]) raises.
RECURSIVE PddLoop(_, _, _, _)
PddLoop(ls, i, j, acc) ==
    IF i > j THEN acc
    ELSE LET parts == Split(ls[i])
             x == IF Len(parts) >= 2 THEN FloatOf(parts[1]) ELSE NoneFloat
             y == IF Len(parts) >= 2 THEN FloatOf(parts[2]) ELSE NoneFloat
             a2 == IF Len(parts) >= 2 /\ x.ok
                   THEN IF y.ok
                        THEN [ xs |-> Append(acc.xs, x.v), ys |-> Append(acc.ys, y.v) ]
                        ELSE [ acc EXCEPT !.xs = Append(@, x.v) ]
                   ELSE acc
         IN  PddLoop(ls, i + 1, j, a2)

\* parse_mcc_pdd on the lines ls of the file: the pair it returns
parse_mcc_pdd(ls) ==
    LET i0 == FirstWith(ls, "BEGIN_DATA")
        i1 == FirstWith(ls, "END_DATA")
    IN  IF i0 = 0 \/ i1 = 0
        THEN [ xs |-> NoneList, ys |-> NoneList ]
        ELSE LET acc == PddLoop(ls, i0 + 1, i1 - 1, [ xs |-> << >>, ys |-> << >> ])
             IN  [ xs |-> OrNone(acc.xs), ys |-> OrNone(acc.ys) ]

(***************************************************************************)
(* Derivation from the header of a file.  meta is the dict of              *)
(* _scan_keyvals: a function from header keys to texts.  A float that the  *)
(* derivation scales is a fraction num/den.                                *)
(***************************************************************************)
\* the greatest common divisor of two naturals, not both zero
RECURSIVE GCD(_, _)
GCD(a, b) == IF b = 0 THEN a ELSE GCD(b, a % b)

\* the fraction n/d in lowest terms
Rat(n, d) == [ num |-> n \div GCD(n, d), den |-> d \div GCD(n, d) ]
RatAdd(a, b) == Rat(a.num * b.den + b.num * a.den, a.den * b.den)
RatMul(a, b) == Rat(a.num * b.num, a.den * b.den)
RatDiv(a, b) ==
    IF b.num < 0 THEN Rat(0 - a.num * b.den, a.den * (0 - b.num))
    ELSE Rat(a.num * b.den, a.den * b.num)
RatLe(a, b) == a.num * b.den <= b.num * a.den
RatEq(a, b) == a.num * b.den = b.num * a.den
RatIsZero(a) == a.num = 0

\* Python None where a float or a text is expected
NoneRat == [ ok |-> FALSE, v |-> Rat(0, 1) ]
NoneText == [ ok |-> FALSE, v |-> "" ]

\* a float, a text that is there
SomeRat(r) == [ ok |-> TRUE, v |-> r ]
SomeText(t) == [ ok |-> TRUE, v |-> t ]

DEFAULT_SAD_CM == Rat(100, 1)

\* str(text).strip() on the texts of the headers
MetaStrip(t) ==
    CASE t = " "     -> ""
      [] t = " 900 " -> "900"
      [] t = " iso " -> "iso"
      [] t = " meas_continuous " -> "meas_continuous"
      [] OTHER       -> t

\* str.upper() on the texts of the headers
MetaUpper(t) ==
    CASE t = "iso"    -> "ISO"
      [] t = "6 fff"  -> "6 FFF"
      [] t = "off"    -> "OFF"
      [] t = "free"   -> "FREE"
      [] t = "meas_continuous" -> "MEAS_CONTINUOUS"
      [] OTHER        -> t

\* the words, among those the derivation looks for, that an upper-case text
\* holds as substrings
WordsIn(t) ==
    CASE t = "ISO"               -> { "ISO" }
      [] t = "ISOCENTER"         -> { "ISO", "ISOCENTER" }
      [] t = "SAD"               -> { "SAD" }
      [] t = "SSD"               -> { "SSD" }
      [] t = "DEPTH"             -> { "DEPTH" }
      [] t = "FIELD_DEPTH"       -> { "DEPTH" }
      [] t = "SSD ISO"           -> { "SSD", "ISO" }
      [] t = "DEPTH SSD"         -> { "DEPTH", "SSD" }
      [] t = "FFF"               -> { "FFF" }
      [] t = "6 FFF"             -> { "FFF" }
      [] t = "6FFF"              -> { "FFF" }
      [] t = "OFF"               -> { "OFF" }
      [] t = "FREE"              -> { "FREE" }
      [] t = "OFF FREE"          -> { "OFF", "FREE" }
      [] t = "SCAN_OFFSET"       -> { "OFF" }
      [] t = "FLATTENING_FILTER" -> { "FLATTENING" }
      [] t = "MEAS_CONTINUOUS"   -> { "MEAS_CONTINUOUS" }
      [] t = "REFERENCE_DOSEMETER" -> { "REFERENCE_DOSEMETER" }
      [] OTHER                   -> {}

\* word in text, for an upper-case text
Mentions(t, word) == word \in WordsIn(t)

\* _pick(meta, *keys): the first value that is there and not blank
RECURSIVE _pick(_, _)
_pick(meta, keys) ==
    IF keys = << >> THEN NoneText
    ELSE IF Head(keys) \in DOMAIN meta /\ MetaStrip(meta[Head(keys)]) # ""
         THEN SomeText(meta[Head(keys)])
         ELSE _pick(meta, Tail(keys))

\* float(str(txt).strip().replace(",", ".")) on the texts of the headers
MetaFloat(t) ==
    CASE t = "900"  -> SomeRat(Rat(900, 1))
      [] t = "1000" -> SomeRat(Rat(1000, 1))
      [] t = "10"   -> SomeRat(Rat(10, 1))
      [] t = "20"   -> SomeRat(Rat(20, 1))
      [] t = "10,5" -> SomeRat(Rat(21, 2))
      [] t = "100"  -> SomeRat(Rat(100, 1))
      [] t = "200"  -> SomeRat(Rat(200, 1))
      [] t = "50"   -> SomeRat(Rat(50, 1))
      [] t = "0"    -> SomeRat(Rat(0, 1))
      [] OTHER      -> NoneRat

\* _as_float(txt) of an optional text
_as_float(txt) == IF ~ txt.ok THEN NoneRat ELSE MetaFloat(MetaStrip(txt.v))

\* an optional float divided by 10
Tenth(f) == IF f.ok THEN SomeRat(RatDiv(f.v, Rat(10, 1))) ELSE NoneRat

_ssd_cm_from_mm(meta) ==
    Tenth(_as_float(_pick(meta, << "SSD", "SCAN_SSD", "SOURCE_SURFACE_DISTANCE", "DSP" >>)))

\* a mutant of _jaws_from: a definition naming SSD is looked at before one
\* naming the isocentre
JawsFromSsdFirst(meta, depth_mm_for_guess) ==
    LET jawx0 == _as_float(_pick(meta, << "JAW_X", "FIELD_X", "COLL_X" >>))
        jawy0 == _as_float(_pick(meta, << "JAW_Y", "FIELD_Y", "COLL_Y" >>))
        rf_x_mm == _as_float(_pick(meta, << "FIELD_INPLANE", "FIELD_INPLANE" >>))
        rf_y_mm == _as_float(_pick(meta, << "FIELD_CROSSPLANE", "FIELD_CROSSPLANE" >>))
        fromField == (~ jawx0.ok \/ ~ jawy0.ok) /\ rf_x_mm.ok /\ rf_y_mm.ok
        jawx == IF fromField THEN Tenth(rf_x_mm) ELSE jawx0
        jawy == IF fromField THEN Tenth(rf_y_mm) ELSE jawy0
        ssd_cm == _ssd_cm_from_mm(meta)
        picked == _pick(meta, << "FIELD_DEFINED", "FIELD_REFERENCE", "FIELD_AT" >>)
        refdef == MetaUpper(MetaStrip(IF picked.ok THEN picked.v ELSE ""))
        ref_depth_cm == Tenth(_as_float(_pick(meta, << "FIELD_DEPTH" >>)))
        d_ref0 ==
            IF Mentions(refdef, "SSD") /\ ssd_cm.ok
            THEN ssd_cm
            ELSE IF Mentions(refdef, "ISO") \/ Mentions(refdef, "ISOCENTER")
                    \/ Mentions(refdef, "SAD")
            THEN SomeRat(DEFAULT_SAD_CM)
            ELSE IF Mentions(refdef, "DEPTH") /\ ssd_cm.ok /\ ref_depth_cm.ok
            THEN SomeRat(RatAdd(ssd_cm.v, ref_depth_cm.v))
            ELSE NoneRat
        depth_cm_guess == Tenth(depth_mm_for_guess)
        d_ref ==
            IF d_ref0.ok THEN d_ref0
            ELSE IF ssd_cm.ok /\ depth_cm_guess.ok
            THEN SomeRat(RatAdd(ssd_cm.v, depth_cm_guess.v))
            ELSE ssd_cm
    IN  [ jawx |-> jawx, jawy |-> jawy, d_ref |-> d_ref ]

\* _jaws_from(meta, depth_mm_for_guess): the jaws in cm and the reference plane
_jaws_from(meta, depth_mm_for_guess) ==
    LET jawx0 == _as_float(_pick(meta, << "JAW_X", "FIELD_X", "COLL_X" >>))
        jawy0 == _as_float(_pick(meta, << "JAW_Y", "FIELD_Y", "COLL_Y" >>))
        rf_x_mm == _as_float(_pick(meta, << "FIELD_INPLANE", "FIELD_INPLANE" >>))
        rf_y_mm == _as_float(_pick(meta, << "FIELD_CROSSPLANE", "FIELD_CROSSPLANE" >>))
        fromField == (~ jawx0.ok \/ ~ jawy0.ok) /\ rf_x_mm.ok /\ rf_y_mm.ok
        jawx == IF fromField THEN Tenth(rf_x_mm) ELSE jawx0
        jawy == IF fromField THEN Tenth(rf_y_mm) ELSE jawy0
        ssd_cm == _ssd_cm_from_mm(meta)
        picked == _pick(meta, << "FIELD_DEFINED", "FIELD_REFERENCE", "FIELD_AT" >>)
        refdef == MetaUpper(MetaStrip(IF picked.ok THEN picked.v ELSE ""))
        ref_depth_cm == Tenth(_as_float(_pick(meta, << "FIELD_DEPTH" >>)))
        d_ref0 ==
            IF Mentions(refdef, "ISO") \/ Mentions(refdef, "ISOCENTER") \/ Mentions(refdef, "SAD")
            THEN SomeRat(DEFAULT_SAD_CM)
            ELSE IF Mentions(refdef, "SSD") /\ ssd_cm.ok
            THEN ssd_cm
            ELSE IF Mentions(refdef, "DEPTH") /\ ssd_cm.ok /\ ref_depth_cm.ok
            THEN SomeRat(RatAdd(ssd_cm.v, ref_depth_cm.v))
            ELSE NoneRat
        depth_cm_guess == Tenth(depth_mm_for_guess)
        d_ref ==
            IF d_ref0.ok THEN d_ref0
            ELSE IF ssd_cm.ok /\ depth_cm_guess.ok
            THEN SomeRat(RatAdd(ssd_cm.v, depth_cm_guess.v))
            ELSE ssd_cm
    IN  [ jawx |-> jawx, jawy |-> jawy, d_ref |-> d_ref ]

_scale_jaw_to_100(jaw_raw_cm, d_ref_cm) ==
    IF ~ jaw_raw_cm.ok \/ ~ d_ref_cm.ok \/ RatIsZero(d_ref_cm.v)
    THEN jaw_raw_cm
    ELSE SomeRat(RatMul(jaw_raw_cm.v, RatDiv(DEFAULT_SAD_CM, d_ref_cm.v)))

\* Python None where a pair of floats is expected
NonePair == [ ok |-> FALSE, fx |-> Rat(0, 1), fy |-> Rat(0, 1), ex |-> 0, ey |-> 0 ]

\* The doubles of lines 636-641. jaw * (100.0 / d_ref) * plane / 100.0 is
\* rounded after each operation, and the double it yields is not always the
\* one nearest to the exact value: DoubleDeviation is the distance between the
\* two in units in the last place, for jaws of 10.0 and 20.0 cm, d_ref among
\* 90, 95, 100 and 110 cm (or none, or zero: no rescaling) and a plane at 95,
\* 100 or 110 cm, as CPython computes them:
\*   10.0 * (100.0 / 95.0) * 95.0 / 100.0  =  9.999999999999998
\*   10.0 * (100.0 / 100.0) * 100.0 / 100.0 = 10.0
\*   20.0 * (100.0 / 110.0) * 110.0 / 100.0 = 19.999999999999996
DoubleDeviation(d_ref, plane) ==
    IF ~ d_ref.ok \/ RatIsZero(d_ref.v) THEN 0
    ELSE IF \/ d_ref.v = Rat(90, 1) /\ plane = Rat(95, 1)
            \/ d_ref.v = Rat(95, 1) /\ plane \in { Rat(95, 1), Rat(100, 1), Rat(110, 1) }
            \/ d_ref.v = Rat(110, 1) /\ plane \in { Rat(95, 1), Rat(100, 1), Rat(110, 1) }
    THEN 0 - 1
    ELSE 0

\* a mutant of _fov_at_depth_pair: projects the raw jaws, not the jaws at 100
FovAtDepthRawJaws(meta, depth_cm) ==
    LET ssd_cm == _ssd_cm_from_mm(meta)
        jaws == _jaws_from(meta, SomeRat(RatMul(depth_cm, Rat(10, 1))))
    IN  IF ~ ssd_cm.ok \/ ~ jaws.jawx.ok \/ ~ jaws.jawy.ok THEN NonePair
        ELSE [ ok |-> TRUE,
               fx |-> RatDiv(RatMul(jaws.jawx.v, RatAdd(ssd_cm.v, depth_cm)), DEFAULT_SAD_CM),
               fy |-> RatDiv(RatMul(jaws.jawy.v, RatAdd(ssd_cm.v, depth_cm)), DEFAULT_SAD_CM),
               ex |-> 0,
               ey |-> 0 ]

\* _fov_at_depth_pair(meta, depth_cm): fx and fy are the exact values of the
\* two expressions, ex and ey the deviations of the doubles returned
_fov_at_depth_pair(meta, depth_cm) ==
    LET ssd_cm == _ssd_cm_from_mm(meta)
        jaws == _jaws_from(meta, SomeRat(RatMul(depth_cm, Rat(10, 1))))
        jawx100 == _scale_jaw_to_100(jaws.jawx, jaws.d_ref)
        jawy100 == _scale_jaw_to_100(jaws.jawy, jaws.d_ref)
    IN  IF ~ ssd_cm.ok THEN NonePair
        ELSE IF ~ jawx100.ok \/ ~ jawy100.ok THEN NonePair
        ELSE [ ok |-> TRUE,
               fx |-> RatDiv(RatMul(jawx100.v, RatAdd(ssd_cm.v, depth_cm)), DEFAULT_SAD_CM),
               fy |-> RatDiv(RatMul(jawy100.v, RatAdd(ssd_cm.v, depth_cm)), DEFAULT_SAD_CM),
               ex |-> DoubleDeviation(jaws.d_ref, RatAdd(ssd_cm.v, depth_cm)),
               ey |-> DoubleDeviation(jaws.d_ref, RatAdd(ssd_cm.v, depth_cm)) ]

\* word in up_all, the upper-cased "KEY=value" items of the header joined by
\* blanks: the word stands in a key or in a value
InUpAll(meta, word) ==
    \E k \in DOMAIN meta :
        Mentions(MetaUpper(k), word) \/ Mentions(MetaUpper(meta[k]), word)

\* _energy_from(meta): the energy text, with " FFF" where the header tells
_energy_from(meta) ==
    LET energy == _pick(meta, << "ENERGY", "SCAN_ENERGY", "BEAM_ENERGY", "XRAY_ENERGY" >>)
        e == MetaStrip(energy.v)
        want_fff == \/ Mentions(MetaUpper(e), "FFF")
                    \/ InUpAll(meta, "FFF")
                    \/ /\ InUpAll(meta, "FLATTENING")
                       /\ (InUpAll(meta, "OFF") \/ InUpAll(meta, "FREE"))
    IN  IF ~ energy.ok THEN NoneText
        ELSE IF ~ Mentions(MetaUpper(e), "FFF") /\ want_fff
        THEN SomeText(e \o " FFF")
        ELSE SomeText(e)

(***************************************************************************)
(* _infer_mode, _step_from_positions_csv and _step_mode_string             *)
(***************************************************************************)
\* meta.get(key)
MetaGet(meta, key) == IF key \in DOMAIN meta THEN SomeText(meta[key]) ELSE NoneText

\* a or b on two optional floats: a when it is there and not 0.0
PyOr(a, b) == IF a.ok /\ ~ RatIsZero(a.v) THEN a ELSE b

\* f"{v:g}" on the speeds of the inputs
FmtG(v) ==
    IF v.den = 1 THEN ToString(v.num)
    ELSE IF v.den = 2 THEN ToString(v.num \div 2) \o ".5"
    ELSE "?"

\* f"{v:.2f}" on the steps of the inputs, which are whole numbers of mm
FmtFixed2(v) == ToString(v.num \div v.den) \o ".00"

\* _infer_mode(meta); "None" where the mode is unknown
_infer_mode(meta) ==
    LET got    == MetaGet(meta, "MEAS_PRESET")
        preset == MetaUpper(MetaStrip(IF got.ok THEN got.v ELSE ""))
    IN  IF Mentions(preset, "MEAS_CONTINUOUS") THEN "continuous"
        ELSE IF Mentions(preset, "REFERENCE_DOSEMETER") THEN "step"
        ELSE "None"

\* _parse_csv_floats(txt) on the position lists of the inputs
_parse_csv_floats(txt) ==
    CASE txt = "0;1;2" -> << Rat(0, 1), Rat(1, 1), Rat(2, 1) >>
      [] txt = "0;1;3" -> << Rat(0, 1), Rat(1, 1), Rat(3, 1) >>
      [] txt = "5;5"   -> << Rat(5, 1), Rat(5, 1) >>
      [] txt = "5"     -> << Rat(5, 1) >>
      [] OTHER         -> << >>

\* abs(b - a)
RatAbsDiff(a, b) ==
    IF RatLe(a, b) THEN RatAdd(b, Rat(0 - a.num, a.den))
    ELSE RatAdd(a, Rat(0 - b.num, b.den))

\* min and max of a non-empty set of fractions
RatMinOf(S) == CHOOSE m \in S : \A d \in S : RatLe(m, d)
RatMaxOf(S) == CHOOSE m \in S : \A d \in S : RatLe(d, m)

\* _step_from_positions_csv(csv_txt): ok is FALSE for None
_step_from_positions_csv(csv_txt) ==
    LET none  == [ ok |-> FALSE, dmin |-> Rat(0, 1), dmax |-> Rat(0, 1),
                   is_fixed |-> FALSE ]
        pos   == _parse_csv_floats(csv_txt.v)
        diffs == { RatAbsDiff(pos[i], pos[i + 1]) : i \in 1..(Len(pos) - 1) }
        kept  == { d \in diffs : ~ RatLe(d, Rat(1, 1000000)) }
    IN  IF ~ csv_txt.ok \/ csv_txt.v = "" THEN none
        ELSE IF Len(pos) < 2 THEN none
        ELSE IF kept = {} THEN none
        ELSE [ ok       |-> TRUE,
               dmin     |-> RatMinOf(kept),
               dmax     |-> RatMaxOf(kept),
               is_fixed |-> RatLe(RatAbsDiff(RatMaxOf(kept), RatMinOf(kept)),
                                  Rat(1, 1000)) ]

\* _step_mode_string(meta, measure_kind); "-" stands for the en dash of the code
_step_mode_string(meta, measure_kind) ==
    LET mode   == _infer_mode(meta)
        pdd    == _as_float(MetaGet(meta, "SCAN_SPEED_PDD"))
        prof   == _as_float(MetaGet(meta, "SCAN_SPEED_PROFILE"))
        speed0 == IF measure_kind = MEASURE_PDD THEN pdd
                  ELSE IF measure_kind = MEASURE_PROFILE THEN prof
                  ELSE NoneRat
        speed  == IF ~ speed0.ok THEN PyOr(pdd, prof) ELSE speed0
        res    == _step_from_positions_csv(MetaGet(meta, "REF_SCAN_POSITIONS"))
    IN  IF mode = "continuous"
        THEN IF speed.ok THEN SomeText("Continu (" \o FmtG(speed.v) \o " mm/s)")
             ELSE SomeText("Continu (vitesse inconnue)")
        ELSE IF mode = "step"
        THEN IF ~ res.ok THEN SomeText("Pas inconnu")
             ELSE IF res.is_fixed
             THEN SomeText("Fixe (" \o FmtFixed2(res.dmax) \o " mm)")
             ELSE SomeText("Variable (" \o FmtFixed2(res.dmin) \o "-"
                               \o FmtFixed2(res.dmax) \o " mm)")
        ELSE NoneText

(***************************************************************************)
(* normalize and MCCPlotterGUI._transform_xy; the samples and the          *)
(* transform of the row are fractions                                      *)
(***************************************************************************)
\* max(vals) of a non-empty list
RatMax(vals) ==
    vals[CHOOSE i \in 1..Len(vals) : \A j \in 1..Len(vals) : RatLe(vals[j], vals[i])]

\* normalize(values)
normalize(values) ==
    IF values = << >> THEN << >>
    ELSE LET maximum == RatMax(values)
         IN  IF RatIsZero(maximum) THEN values
             ELSE [ i \in 1..Len(values) |-> RatDiv(values[i], maximum) ]

\* a mutant of _transform_xy: the offset is added after the scaling
TransformScaleFirst(xs0, ys0, row, normalize_on) ==
    LET xs_t == [ i \in 1..Len(xs0) |-> RatAdd(xs0[i], row.x_shift) ]
        ys_t == [ i \in 1..Len(ys0) |->
                    RatAdd(RatMul(ys0[i], row.y_scale), row.y_offset) ]
    IN  [ xs |-> xs_t, ys |-> IF normalize_on THEN normalize(ys_t) ELSE ys_t ]

\* MCCPlotterGUI._transform_xy(xs, ys, row), normalize_on being normalize_var.get()
_transform_xy(xs0, ys0, row, normalize_on) ==
    LET xs_t == [ i \in 1..Len(xs0) |-> RatAdd(xs0[i], row.x_shift) ]
        ys_t == [ i \in 1..Len(ys0) |->
                    RatMul(RatAdd(ys0[i], row.y_offset), row.y_scale) ]
    IN  [ xs |-> xs_t, ys |-> IF normalize_on THEN normalize(ys_t) ELSE ys_t ]

(***************************************************************************)
(* _plot_profiles_for_row.match_depths                                     *)
(***************************************************************************)
\* |a - b| on integers
AbsDiff(a, b) == IF a >= b THEN a - b ELSE b - a

\* abs(dcm - target_cm) <= 0.05 where the exact difference is 0.05: the two
\* doubles differ from the exact values, and the comparison gives
\*   abs(100.5 / 10.0 - 10.0) = 0.05000000000000071  -> False
\*   abs( 99.5 / 10.0 - 10.0) = 0.05000000000000071  -> False
\*   abs( 50.5 / 10.0 -  5.0) = 0.04999999999999982  -> True
\*   abs( 49.5 / 10.0 -  5.0) = 0.04999999999999982  -> True
AtToleranceEdge(depth_mm, target_cm) ==
    (depth_mm = 5050 /\ target_cm = 500) \/ (depth_mm = 4950 /\ target_cm = 500)

\* abs(dmm / 10.0 - target_cm) <= 0.05, the depth in hundredths of a mm and
\* the target in hundredths of a cm: the difference is counted in thousandths
\* of a cm
WithinTolerance(depth_mm, target_cm) ==
    LET diff == AbsDiff(depth_mm, 10 * target_cm)
    IN  IF diff # 50 THEN diff < 50 ELSE AtToleranceEdge(depth_mm, target_cm)

\* match_depths(seq, target_cm): the (xs, ys) of the curves of seq at the depth
match_depths(seq, target_cm) ==
    LET hit(e) == e.depth_mm.ok /\ WithinTolerance(e.depth_mm.v, target_cm)
        kept == SelectSeq(seq, hit)
    IN  [ i \in 1..Len(kept) |-> << kept[i].xs, kept[i].ys >> ]

(***************************************************************************)
(* MCCPlotterGUI._plot_profiles_for_row: the target depths, the namespaces *)
(* of the style allocations and the curves handed to plt.plot. Targets are *)
(* in hundredths of a cm, depths of curves in hundredths of a mm.          *)
(***************************************************************************)
\* the numbers _as_float finds in the parts of a depth text, in cm; the texts
\* of the inputs have at most two decimals
DepthCsvRaw(txt) ==
    CASE txt = "5.0"       -> << 500 >>
      [] txt = "5.0, 5.0"  -> << 500, 500 >>
      [] txt = "5.0, 5.04" -> << 500, 504 >>
      [] txt = "5.0, 10.0" -> << 500, 1000 >>
      [] OTHER             -> << >>

\* the second loop of _parse_depth_csv_cm: the first occurrence of each key
\* round(depth, 2) is kept
RECURSIVE DropSeen(_, _)
DropSeen(raw, seen) ==
    IF raw = << >> THEN << >>
    ELSE IF Head(raw) \in seen THEN DropSeen(Tail(raw), seen)
    ELSE << Head(raw) >> \o DropSeen(Tail(raw), seen \cup { Head(raw) })

\* _parse_depth_csv_cm(txt)
_parse_depth_csv_cm(txt) == DropSeen(DepthCsvRaw(txt), {})

\* profiles.get(kind, [])
ProfilesGet(profiles, kind) == IF kind \in DOMAIN profiles THEN profiles[kind] ELSE << >>

\* MCCPlotterGUI._all_depths_from_profiles(row), on row["_profiles"]
_all_depths_from_profiles(profiles) ==
    SortedSeq(UNION { { RoundCm2(profiles[k][i].depth_mm.v) :
                          i \in { j \in 1..Len(profiles[k]) :
                                    profiles[k][j].depth_mm.ok } } :
                      k \in DOMAIN profiles })

\* a mutant of ProfileColorNs: the field of view is a variable like the others
ProfileColorNsPlain(pvar) ==
    IF pvar = "depth" THEN "depth"
    ELSE IF pvar # "" THEN pvar ELSE "default"

\* the namespace of the color allocation of _plot_profiles_for_row
ProfileColorNs(pvar) ==
    IF pvar = "depth" THEN "depth"
    ELSE IF pvar = "fov" THEN "fov@depth"
    ELSE IF pvar # "" THEN pvar ELSE "default"

\* the namespace of the marker allocation of _plot_profiles_for_row
ProfileMarkerNs(psec) ==
    IF psec = "depth" THEN "depth"
    ELSE IF psec = "fov" THEN "fov@depth"
    ELSE psec

\* the curves of kind that one pass of the loop hands to plt.plot
DrawnAt(profiles, kind, wanted, depth_cm) ==
    IF wanted /\ ProfilesGet(profiles, kind) # << >>
    THEN LET hits == match_depths(ProfilesGet(profiles, kind), depth_cm)
         IN  [ i \in 1..Len(hits) |->
                 [ kind |-> kind, xs |-> hits[i][1], ys |-> hits[i][2] ] ]
    ELSE << >>

\* the loop of _plot_profiles_for_row over the target depths still to do
RECURSIVE PlotLoop(_, _, _, _)
PlotLoop(profiles, want_in, want_cross, targets) ==
    IF targets = << >> THEN << >>
    ELSE DrawnAt(profiles, "inplane", want_in, Head(targets))
         \o DrawnAt(profiles, "crossplane", want_cross, Head(targets))
         \o PlotLoop(profiles, want_in, want_cross, Tail(targets))

\* MCCPlotterGUI._plot_profiles_for_row(row): the curves handed to plt.plot,
\* in order; profiles is row["_profiles"] and depth is row["depth"]
_plot_profiles_for_row(profiles, depth, want_in, want_cross) ==
    LET depth_csv == TextStrip(depth)
        target_cm_list == IF depth_csv # "" THEN _parse_depth_csv_cm(depth_csv)
                          ELSE _all_depths_from_profiles(profiles)
    IN  PlotLoop(profiles, want_in, want_cross, target_cm_list)

(***************************************************************************)
(* MCCPlotterGUI.plot and _plot_common: the style allocations of a figure. *)
(* Each curve of the figure takes a color and, with a secondary variable,  *)
(* a marker from the allocators; the maps they extend are the state the    *)
(* figure leaves behind.                                                   *)
(***************************************************************************)
\* the characters of a text of a row or of a legend; the texts of the rows
\* hold no capital and no outer blank but for those spelled out here
StrChars(text) ==
    CASE text = ""              -> << >>
      [] text = " 5.0 "         -> << " ", "5", ".", "0", " " >>
      [] text = "(FOV inconnu)" -> << "(", "F", "O", "V", " ", "i", "n", "c", "o",
                                      "n", "n", "u", ")" >>
      [] OTHER                  -> << text >>

\* row.get(key, ""): the columns of PARAMS are the keys a variable can name
RowGet(row, key) == IF key \in ParamKeys THEN row.params[key] ELSE ""

\* row["_profiles"] as add_files leaves it: the curves of the file, each with
\* its depth
FileProfiles(path) ==
    IF FileDepthsMm(path) = << >> THEN [ k \in {} |-> << >> ]
    ELSE [ k \in { "inplane" } |->
             [ i \in 1..Len(FileDepthsMm(path)) |->
                 [ depth_mm |-> [ ok |-> TRUE, v |-> FileDepthsMm(path)[i] ],
                   xs |-> << >>, ys |-> << >> ] ] ]

\* row["_pdd"] is set: parse_mcc_pdd reads the first data block of the file,
\* and a file with a curve has one
FileHasPdd(path) == FileDepthsMm(path) # << >>

\* MCCPlotterGUI._fov_value_at_depth(row, depth_cm): the text computed from
\* the header, else the entry of the aggregated text of the row for this
\* depth, else the placeholder; the aggregated texts of rows whose header
\* gives no field of view are empty
_fov_value_at_depth(row, depth_cm) ==
    LET text == FileFovAtDepth(row.path, depth_cm)
    IN  IF text # "" THEN text ELSE "(FOV inconnu)"

\* the namespace of the color allocation of the depth-dose branch of
\* _plot_common
PddColorNs(pvar) ==
    IF pvar = "fov" THEN "fov@depth"
    ELSE IF pvar # "" THEN pvar ELSE "default"

\* the namespace of the marker allocation of the depth-dose branch
PddMarkerNs(psec) == IF psec = "fov" THEN "fov@depth" ELSE psec

\* color = self._get_color_for(...) then
\* marker = self._get_marker_for(...) if psec else "o"; st holds the
\* preference document and the file
StyleOf(st, color_ns, color_key, psec, marker_ns, marker_key) ==
    LET c == _get_color_for(st.prefs, st.disk, color_ns, StrChars(color_key))
    IN  IF psec # ""
        THEN LET m == _get_marker_for(c.prefs, c.disk, marker_ns, StrChars(marker_key))
             IN  [ prefs |-> m.prefs, disk |-> m.disk ]
        ELSE [ prefs |-> c.prefs, disk |-> c.disk ]

\* the loop of _plot_profiles_for_row over the target depths: the keys and
\* the namespaces of the styles of one depth
RECURSIVE ProfileStyles(_, _, _, _, _)
ProfileStyles(st, row, targets, pvar, psec) ==
    IF targets = << >> THEN st
    ELSE LET depth_cm == Head(targets)
             depth_cm_str == FmtG(Rat(depth_cm, 100))
             color_key == IF pvar = "depth" THEN depth_cm_str
                          ELSE IF pvar = "fov" THEN _fov_value_at_depth(row, depth_cm)
                          ELSE IF pvar # "" THEN RowGet(row, pvar) ELSE ""
             marker_key == IF psec = "depth" THEN depth_cm_str
                           ELSE IF psec = "fov" THEN _fov_value_at_depth(row, depth_cm)
                           ELSE IF psec # "" THEN RowGet(row, psec) ELSE ""
         IN  ProfileStyles(StyleOf(st, ProfileColorNs(pvar), color_key, psec,
                                   ProfileMarkerNs(psec), marker_key),
                           row, Tail(targets), pvar, psec)

\* the target depths of _plot_profiles_for_row(row)
TargetCmList(row) ==
    LET depth_csv == TextStrip(row.params["depth"])
    IN  IF depth_csv # "" THEN _parse_depth_csv_cm(depth_csv)
        ELSE _all_depths_from_profiles(FileProfiles(row.path))

\* the body of the depth-dose loop of _plot_common for one row
PddStyles(st, row, pvar, psec) ==
    LET label == IF pvar = "depth" THEN row.params["depth"]
                 ELSE IF pvar = "fov" THEN row.params["fov"]
                 ELSE IF pvar # "" THEN RowGet(row, pvar) ELSE "(valeur manquante)"
        marker_val == IF psec # "" THEN RowGet(row, psec) ELSE ""
    IN  StyleOf(st, PddColorNs(pvar), label, psec, PddMarkerNs(psec), marker_val)

\* the row has something to draw: the two `continue` of _plot_common
HasCurves(row, o) ==
    IF o.measure_type = MEASURE_PROFILE
    THEN DOMAIN FileProfiles(row.path) # {}
    ELSE FileHasPdd(row.path)

\* MCCPlotterGUI._plot_common(included_rows)
RECURSIVE _plot_common(_, _, _)
_plot_common(included_rows, st, o) ==
    IF included_rows = << >> THEN st
    ELSE LET row  == Head(included_rows)
             pvar == TextStrip(o.color_var_name)
             psec == TextStrip(o.marker_var_name)
             st2  == IF ~ HasCurves(row, o) THEN st
                     ELSE IF o.measure_type = MEASURE_PROFILE
                     THEN ProfileStyles(st, row, TargetCmList(row), pvar, psec)
                     ELSE PddStyles(st, row, pvar, psec)
         IN  _plot_common(Tail(included_rows), st2, o)

\* SelectSeq with a named test: the rows marked include
IncludedRows(rs) == SelectSeq(rs, LAMBDA row : row.include)

\* MCCPlotterGUI.plot, and export_png once a path is chosen
plot(rs, p, old, o) ==
    LET included == IncludedRows(rs)
    IN  IF included = << >> THEN [ prefs |-> p, disk |-> old ]
        ELSE _plot_common(included, [ prefs |-> p, disk |-> old ], o)

(***************************************************************************)
(* State machine of the window                                             *)
(***************************************************************************)
MaxRows == 1

\* what the file dialog of add_files can return
PathChoices == { << >>, << "a.mcc" >> }

MeasureChoices == { MEASURE_PDD, MEASURE_PROFILE }
ColorVarChoices == { "detector", "fov" }
MarkerVarChoices == { "", "fov" }
TitleChoices == { "", "t" }

\* the three numeric entries of the edit panel, as typed
TransformChoices ==
    { << "0", "1", "0" >>, << "abc", "1", "0" >>, << "0", "abc", "0" >>,
      << "0", "1", "abc" >> }

DepthChoices == { "", " 5.0 " }

\* the edit panel holds the selected row's texts, the depth entry possibly retyped
EditPanels(row) ==
    { [ x_shift |-> t[1], y_scale |-> t[2], y_offset |-> t[3],
        include |-> inc,
        params  |-> [ row.params EXCEPT !["depth"] = d ] ] :
      t \in TransformChoices, inc \in BOOLEAN,
      d \in DepthChoices \cup { row.params["depth"] } }

\* the edit panel as __init__ leaves it
BlankPanel ==
    [ x_shift |-> "0", y_scale |-> "1", y_offset |-> "0", include |-> TRUE,
      params |-> NoParams ]

\* tree.selection() as ascending row indices
Selections == { SortedSeq(S) : S \in SUBSET (1..Len(rows)) }

\* the namespaces and raw values the plotting code hands to the allocators
ColorNamespaces == { "fov@depth" }
MarkerNamespaces == { "fov@depth", "" }
RawValues == { << "6" >>, << "F" >> }

NoCall == [ op |-> "none", ns |-> "", raw |-> << >>, ret |-> "" ]

\* the locals of parse_mcc_profiles_all as one record
ParserState ==
    [ current_kind  |-> current_kind,
      current_depth |-> current_depth,
      in_data       |-> in_data,
      xs            |-> xs,
      ys            |-> ys,
      result        |-> result ]

\* the locals of parse_mcc_profiles_all are those of st
ParserIs(st) ==
    /\ current_kind = st.current_kind
    /\ current_depth = st.current_depth
    /\ in_data = st.in_data
    /\ xs = st.xs
    /\ ys = st.ys
    /\ result = st.result

\* the locals of parse_mcc_profiles_all become those of st
ParserBecomes(st) ==
    /\ current_kind' = st.current_kind
    /\ current_depth' = st.current_depth
    /\ in_data' = st.in_data
    /\ xs' = st.xs
    /\ ys' = st.ys
    /\ result' = st.result

\* no module-level function is being called on its own
NoFunctionCall ==
    /\ fn_args = << >>
    /\ fn_ret = << >>
    /\ fn_pc = "idle"

\* parse_mcc_profiles_all has not been called
ParserIdle ==
    /\ lines = << >>
    /\ nread = 0
    /\ pc = "idle"
    /\ ParserIs(ParserStart)

Options ==
    [ measure_type |-> measure_type, color_var_name |-> color_var_name,
      marker_var_name |-> marker_var_name, normalize_var |-> normalize_var,
      profile_inplane_var |-> profile_inplane_var,
      profile_crossplane_var |-> profile_crossplane_var,
      custom_title_var |-> custom_title_var ]

\* MCCPlotterGUI.__init__: load_prefs of a store holding the document d
WindowLoaded(d) ==
    /\ disk = d
    /\ prefs = disk
    /\ rows = << >>
    /\ measure_type = prefs.glob.measure_type
    /\ normalize_var = prefs.glob.normalize
    /\ profile_inplane_var = prefs.glob.profile_inplane
    /\ profile_crossplane_var = prefs.glob.profile_crossplane
    /\ custom_title_var = prefs.glob.custom_title
    /\ color_var_name = prefs.glob.color_variable
    /\ marker_var_name = prefs.glob.marker_variable
    /\ call = NoCall

\* the window opened on a store holding the default document
InitWindow == WindowLoaded(_default_prefs)

\* the window is up, no file is being parsed and no function is being called
Init == InitWindow /\ ParserIdle /\ NoFunctionCall

\* the handler returned r: rows, document and file take its values
Returns(r) ==
    /\ rows' = r.rows
    /\ prefs' = r.prefs
    /\ disk' = r.disk
    /\ call' = NoCall
    /\ UNCHANGED << parseVars, funVars >>

AddFiles ==
    \E paths \in PathChoices :
        /\ Len(rows) + Len(paths) <= MaxRows
        /\ rows' = add_files(rows, prefs, paths, measure_type)
        /\ call' = NoCall
        /\ UNCHANGED << prefs, disk, optVars, parseVars, funVars >>

ApplyEdit ==
    \E idx \in 0..Len(rows) :
        \E panel \in (IF idx = 0 THEN { BlankPanel } ELSE EditPanels(rows[idx])) :
            /\ Returns(apply_edit(rows, prefs, disk, idx, panel))
            /\ UNCHANGED optVars

SetIncludeSelected ==
    \E idxs \in Selections, value \in BOOLEAN :
        /\ Returns(_set_include_for_indices(rows, prefs, disk, idxs, value))
        /\ UNCHANGED optVars

ToggleSelected ==
    \E idxs \in Selections :
        /\ Returns(toggle_selected(rows, prefs, disk, idxs))
        /\ UNCHANGED optVars

\* select_all and deselect_all
SelectAll ==
    \E value \in BOOLEAN :
        /\ Returns(_set_include_for_indices(rows, prefs, disk,
                                            [ i \in 1..Len(rows) |-> i ], value))
        /\ UNCHANGED optVars

InvertAll ==
    /\ Returns(invert_all(rows, prefs, disk))
    /\ UNCHANGED optVars

RemoveSelected ==
    \E idxs \in Selections :
        /\ rows' = remove_selected(rows, idxs)
        /\ call' = NoCall
        /\ UNCHANGED << prefs, disk, optVars, parseVars, funVars >>

ClearAll ==
    /\ rows' = << >>
    /\ call' = NoCall
    /\ UNCHANGED << prefs, disk, optVars, parseVars, funVars >>

\* a write to one of the traced tk variables, then the _on_var_change callback
\* with the variables as they are after the write
VarWritten(o) ==
    /\ measure_type' = o.measure_type
    /\ color_var_name' = o.color_var_name
    /\ marker_var_name' = o.marker_var_name
    /\ normalize_var' = o.normalize_var
    /\ profile_inplane_var' = o.profile_inplane_var
    /\ profile_crossplane_var' = o.profile_crossplane_var
    /\ custom_title_var' = o.custom_title_var
    /\ Returns(_on_var_change(rows, prefs, disk, o))

WriteMeasureType ==
    \E v \in MeasureChoices : VarWritten([ Options EXCEPT !.measure_type = v ])

WriteColorVar ==
    \E v \in ColorVarChoices : VarWritten([ Options EXCEPT !.color_var_name = v ])

WriteMarkerVar ==
    \E v \in MarkerVarChoices : VarWritten([ Options EXCEPT !.marker_var_name = v ])

WriteNormalize ==
    \E v \in BOOLEAN : VarWritten([ Options EXCEPT !.normalize_var = v ])

WriteProfileInplane ==
    \E v \in BOOLEAN : VarWritten([ Options EXCEPT !.profile_inplane_var = v ])

WriteProfileCrossplane ==
    \E v \in BOOLEAN : VarWritten([ Options EXCEPT !.profile_crossplane_var = v ])

WriteCustomTitle ==
    \E v \in TitleChoices : VarWritten([ Options EXCEPT !.custom_title_var = v ])

\* one call of _get_color_for from the plotting code
GetColorFor(nss, raws) ==
    \E ns \in nss, raw \in raws :
        LET r == _get_color_for(prefs, disk, ns, raw) IN
        /\ prefs' = r.prefs
        /\ disk' = r.disk
        /\ call' = [ op |-> "color", ns |-> ns, raw |-> raw, ret |-> r.ret ]
        /\ UNCHANGED << rows, optVars, parseVars, funVars >>

\* one call of _get_marker_for from the plotting code
GetMarkerFor(nss, raws) ==
    \E ns \in nss, raw \in raws :
        LET r == _get_marker_for(prefs, disk, ns, raw) IN
        /\ prefs' = r.prefs
        /\ disk' = r.disk
        /\ call' = [ op |-> "marker", ns |-> ns, raw |-> raw, ret |-> r.ret ]
        /\ UNCHANGED << rows, optVars, parseVars, funVars >>

Next ==
    \/ AddFiles
    \/ ApplyEdit
    \/ SetIncludeSelected
    \/ ToggleSelected
    \/ SelectAll
    \/ InvertAll
    \/ RemoveSelected
    \/ ClearAll
    \/ WriteMeasureType
    \/ GetColorFor(ColorNamespaces, RawValues)
    \/ GetMarkerFor(MarkerNamespaces, RawValues)

vars == <<guiVars, parseVars, funVars>>

Spec == Init /\ [][Next]_vars

(***************************************************************************)
(* The options at the top of the window: every write to a traced variable  *)
(* runs _on_var_change; files can be loaded in between                     *)
(***************************************************************************)
NextOptions ==
    \/ AddFiles
    \/ WriteMeasureType
    \/ WriteColorVar
    \/ WriteMarkerVar
    \/ WriteNormalize
    \/ WriteProfileInplane
    \/ WriteProfileCrossplane
    \/ WriteCustomTitle

SpecOptions == Init /\ [][NextOptions]_vars

(***************************************************************************)
(* Figures: the window opens on a store left by an earlier session, files  *)
(* are loaded, rows are included or not, the variables are chosen, and     *)
(* plot draws the figure                                                   *)
(***************************************************************************)
\* the variables a store can hold: any text, the combobox is not consulted
StoredColorVars == { "", "depth", " fov " }

\* maps a store can hold under the name of the column "fov"
StoredFovColors == [ k \in { "fov" } |-> [ v \in { << "1", "0" >> } |-> OKABE_ITO[1] ] ]
StoredFovMarkers == [ k \in { "fov" } |-> [ v \in { << "1", "0" >> } |-> MARKER_POOL[1] ] ]

StoredPrefs ==
    { [ _default_prefs EXCEPT !.glob.color_variable = c,
                              !.glob.color_maps = IF withFov THEN StoredFovColors ELSE EmptyDict,
                              !.glob.marker_maps = IF withFov THEN StoredFovMarkers ELSE EmptyDict ] :
        c \in StoredColorVars, withFov \in BOOLEAN }

InitPlot ==
    /\ \E d \in StoredPrefs : WindowLoaded(d)
    /\ ParserIdle
    /\ NoFunctionCall

PlotCall == [ op |-> "plot", ns |-> "", raw |-> << >>, ret |-> "" ]

\* the button "Tracer": MCCPlotterGUI.plot
Plot ==
    LET r == plot(rows, prefs, disk, Options) IN
    /\ prefs' = r.prefs
    /\ disk' = r.disk
    /\ call' = PlotCall
    /\ UNCHANGED << rows, optVars, parseVars, funVars >>

NextPlot ==
    \/ AddFiles
    \/ SetIncludeSelected
    \/ WriteMeasureType
    \/ WriteColorVar
    \/ WriteMarkerVar
    \/ Plot

SpecPlot == InitPlot /\ [][NextPlot]_vars

(***************************************************************************)
(* The allocators alone, over several namespaces and over raw values that  *)
(* differ only in case and surrounding blanks                              *)
(***************************************************************************)
StyleColorNamespaces == { "energy", "fov@depth", "" }
StyleMarkerNamespaces == { "energy", "" }

\* "6F", " 6f", "6", "6 "
StyleRawValues ==
    { << "6", "F" >>, << " ", "6", "f" >>, << "6" >>, << "6", " " >> }

NextStyle ==
    \/ GetColorFor(StyleColorNamespaces, StyleRawValues)
    \/ GetMarkerFor(StyleMarkerNamespaces, StyleRawValues)

SpecStyle == Init /\ [][NextStyle]_vars

(***************************************************************************)
(* The allocators of one namespace until the pools run out.  The allocator *)
(* reads a value only through _normalize_key, so the values are numbered   *)
(* in the order of their first use: a call names a value already met or    *)
(* the next new one.                                                       *)
(***************************************************************************)
PoolExtra == 2

PoolNamespace == "depth"

DigitChars == << "0", "1", "2", "3", "4", "5", "6", "7", "8", "9" >>

\* str(k) as characters, for 1 <= k <= 99
NumStr(k) ==
    IF k < 10 THEN << DigitChars[k + 1] >>
    ELSE << DigitChars[(k \div 10) + 1], DigitChars[(k % 10) + 1] >>

\* the namespace map of a style dict, empty while the namespace is unknown
MapOf(maps, key) == IF key \in DOMAIN maps THEN maps[key] ELSE EmptyDict

\* the raw values a call can name when n values are known and the pool holds size
NextValues(n, size) ==
    { NumStr(k) : k \in 1..(IF n + 1 <= size + PoolExtra THEN n + 1 ELSE n) }

NextPool ==
    \/ GetColorFor({ PoolNamespace },
                   NextValues(Cardinality(DOMAIN MapOf(prefs.glob.color_maps, PoolNamespace)),
                              Len(OKABE_ITO)))
    \/ GetMarkerFor({ PoolNamespace },
                    NextValues(Cardinality(DOMAIN MapOf(prefs.glob.marker_maps, PoolNamespace)),
                               Len(MARKER_POOL)))

SpecPool == Init /\ [][NextPool]_vars

(***************************************************************************)
(* parse_mcc_profiles_all on a file that is discovered line by line: each  *)
(* pass of the loop meets any of the lines below                           *)
(***************************************************************************)
MaxLines == 5

InplaneLine == << "SCAN_CURVETYPE=", "INPLANE_PROFILE" >>
CrossplaneLine == << " ", "SCAN_CURVETYPE=", "crossplane_profile", " " >>
PddLine == << "SCAN_CURVETYPE=", "PDD" >>
BeginLine == << "BEGIN_DATA" >>
EndLine == << "END_DATA" >>

\* "SCAN_DEPTH=<d>" for a depth in mm
DepthLine(d) == << "SCAN_DEPTH=", IF d = 50 THEN "50" ELSE "100" >>

\* "1 2", a sample, and "5 x", whose second token is no number
GoodSampleLine == << "1", " ", "2" >>
HalfSampleLine == << "5", " ", "x" >>

LineChoices ==
    { InplaneLine, CrossplaneLine, PddLine, DepthLine(50), BeginLine, EndLine,
      GoodSampleLine, HalfSampleLine }

\* the file is read and the locals are set: the loop is about to start
InitParse(files) ==
    /\ InitWindow
    /\ lines \in files
    /\ nread = 0
    /\ pc = "loop"
    /\ ParserIs(ParserStart)
    /\ NoFunctionCall

\* one pass of the for loop on a file whose next line is one of choices
ReadLine(choices) ==
    \E raw \in choices :
        /\ pc = "loop"
        /\ nread = Len(lines)
        /\ Len(lines) < MaxLines
        /\ lines' = Append(lines, raw)
        /\ nread' = nread + 1
        /\ ParserBecomes(LoopBody(ParserState, raw))
        /\ UNCHANGED << pc, guiVars, funVars >>

\* one pass of the for loop on the next line of a file known in full
NextLine ==
    /\ pc = "loop"
    /\ nread < Len(lines)
    /\ nread' = nread + 1
    /\ ParserBecomes(LoopBody(ParserState, lines[nread + 1]))
    /\ UNCHANGED << lines, pc, guiVars, funVars >>

\* the loop is over: last commit, pops, return
Return ==
    /\ pc = "loop"
    /\ nread = Len(lines)
    /\ pc' = "done"
    /\ ParserBecomes(AfterLoop(ParserState))
    /\ UNCHANGED << lines, nread, guiVars, funVars >>

NextParse ==
    \/ ReadLine(LineChoices)
    \/ Return

SpecParse == InitParse({ << >> }) /\ [][NextParse]_vars

(***************************************************************************)
(* parse_mcc_profiles_all on files made of well-formed profile curves      *)
(***************************************************************************)
MaxCurves == 2

Kinds == { "inplane", "crossplane" }
Depths == { 50, 100 }

\* the SCAN_CURVETYPE line of an orientation
CurveTypeLine(kind) == IF kind = "inplane" THEN InplaneLine ELSE CrossplaneLine

\* str(n) for the sample values
NumWord(n) == CASE n = 0 -> "0" [] n = 1 -> "1" [] n = 2 -> "2" [] OTHER -> "5"

\* the data line of the sample (x, y); the lines of x = 0 are indented and
\* carry a third column
SampleLine(p) ==
    IF p[1] = 0
    THEN << " ", NumWord(p[1]), " ", " ", NumWord(p[2]), " ", "5" >>
    ELSE << NumWord(p[1]), " ", NumWord(p[2]) >>

\* the sample lists of a block
SampleLists ==
    { << << 1, 2 >> >>,
      << << 0, 1 >>, << 1, 2 >> >>,
      << << 0, 2 >>, << 1, 1 >>, << 2, 0 >> >> }

\* the lines of one well-formed curve
CurveLines(kind, depth, samples) ==
    << CurveTypeLine(kind), DepthLine(depth), BeginLine >>
        \o [ i \in 1..Len(samples) |-> SampleLine(samples[i]) ]
        \o << EndLine >>

CurveBlocks ==
    { CurveLines(kind, depth, samples) :
        kind \in Kinds, depth \in Depths, samples \in SampleLists }

\* the files made of n well-formed curves
RECURSIVE FilesOf(_)
FilesOf(n) ==
    IF n = 0 THEN { << >> }
    ELSE { f \o b : f \in FilesOf(n - 1), b \in CurveBlocks }

WellFormedFiles == UNION { FilesOf(n) : n \in 0..MaxCurves }

NextWellFormed ==
    \/ NextLine
    \/ Return

SpecWellFormed == InitParse(WellFormedFiles) /\ [][NextWellFormed]_vars

(***************************************************************************)
(* Module-level functions called on their own: the arguments are drawn in  *)
(* the initial state, one step enters the call and one returns from it     *)
(***************************************************************************)
\* the call is about to be made with one of the arguments of args
InitFunction(args) ==
    /\ InitWindow
    /\ ParserIdle
    /\ fn_args \in args
    /\ fn_ret = << >>
    /\ fn_pc = "idle"

\* the function is entered
EnterFunction ==
    /\ fn_pc = "idle"
    /\ fn_pc' = "called"
    /\ UNCHANGED << fn_args, fn_ret, guiVars, parseVars >>

\* the function returns value
ReturnValue(value) ==
    /\ fn_pc = "called"
    /\ fn_pc' = "returned"
    /\ fn_ret' = value
    /\ UNCHANGED << fn_args, guiVars, parseVars >>

\* the sequences of at most n elements of S
RECURSIVE SeqsUpTo(_, _)
SeqsUpTo(S, n) ==
    IF n = 0 THEN { << >> }
    ELSE LET shorter == SeqsUpTo(S, n - 1)
         IN  shorter \cup { Append(q, e) : q \in shorter, e \in S }

(***************************************************************************)
(* parse_mcc_pdd on files of at most MaxLines lines                        *)
(***************************************************************************)
PddLineChoices ==
    { BeginLine, EndLine, GoodSampleLine, HalfSampleLine, SampleLine(<< 0, 1 >>) }

PddFiles == SeqsUpTo(PddLineChoices, MaxLines)

ReturnPdd == ReturnValue(parse_mcc_pdd(fn_args))

NextPdd ==
    \/ EnterFunction
    \/ ReturnPdd

SpecPdd == InitFunction(PddFiles) /\ [][NextPdd]_vars

(***************************************************************************)
(* map_meta_to_params on the curve depths of a file without header keys    *)
(***************************************************************************)
MaxDepths == 3

\* 50.00 mm, 50.40 mm and 100.00 mm
DepthsMmChoices == { 5000, 5040, 10000 }

DepthLists == SeqsUpTo(DepthsMmChoices, MaxDepths)

ReturnDepthText ==
    ReturnValue(map_meta_to_params("b.mcc", fn_args, MEASURE_PROFILE)["depth"])

NextDepthText ==
    \/ EnterFunction
    \/ ReturnDepthText

SpecDepthText == InitFunction(DepthLists) /\ [][NextDepthText]_vars

(***************************************************************************)
(* _fov_at_depth_pair on headers that hold, or lack, the keys it reads     *)
(***************************************************************************)
\* the choice that leaves a key out of the header
Absent == "<absent>"

\* the header made of the chosen texts
MetaOf(choice) ==
    [ k \in { key \in DOMAIN choice : choice[key] # Absent } |-> choice[k] ]

FovMetas ==
    { MetaOf(c) : c \in [ SSD              : { Absent, "900", "abc" },
                          JAW_X            : { Absent, "10" },
                          JAW_Y            : { Absent, "20" },
                          FIELD_INPLANE    : { Absent, "100" },
                          FIELD_CROSSPLANE : { Absent, "200" },
                          FIELD_DEFINED    : { Absent, " iso ", "SSD", "DEPTH" },
                          FIELD_DEPTH      : { Absent, "50" } ] }

\* 5 cm, 10 cm and 20 cm
FovDepthsCm == { Rat(5, 1), Rat(10, 1), Rat(20, 1) }

FovArgs == [ meta : FovMetas, depth_cm : FovDepthsCm ]

ReturnFovPair == ReturnValue(_fov_at_depth_pair(fn_args.meta, fn_args.depth_cm))

NextFovPair ==
    \/ EnterFunction
    \/ ReturnFovPair

SpecFovPair == InitFunction(FovArgs) /\ [][NextFovPair]_vars

(***************************************************************************)
(* match_depths on lists of at most MaxCurves curves                       *)
(***************************************************************************)
\* a curve at depth_mm (hundredths of a mm) with one sample (x, y)
CurveAt(depth_mm, x, y) ==
    [ depth_mm |-> [ ok |-> TRUE, v |-> depth_mm ], xs |-> << x >>, ys |-> << y >> ]

\* curves without depth and at 50.00, 50.50, 100.03, 100.50 and 100.60 mm
MatchCurves ==
    { [ depth_mm |-> NoneFloat, xs |-> << 0 >>, ys |-> << 0 >> ],
      CurveAt(5000, 1, 1), CurveAt(5050, 2, 2), CurveAt(10003, 3, 3),
      CurveAt(10050, 4, 4), CurveAt(10060, 5, 5) }

\* 5.00 cm, 10.00 cm and 20.00 cm
MatchTargetsCm == { 500, 1000, 2000 }

MatchArgs == [ seq : SeqsUpTo(MatchCurves, MaxCurves), target_cm : MatchTargetsCm ]

ReturnMatch == ReturnValue(match_depths(fn_args.seq, fn_args.target_cm))

NextMatch ==
    \/ EnterFunction
    \/ ReturnMatch

SpecMatch == InitFunction(MatchArgs) /\ [][NextMatch]_vars

(***************************************************************************)
(* _energy_from on headers with and without signs of a beam without        *)
(* flattening filter                                                       *)
(***************************************************************************)
EnergyMetas ==
    { MetaOf(c) : c \in [ ENERGY            : { Absent, " ", "6", "6 fff" },
                          SCAN_ENERGY       : { Absent, "10" },
                          FLATTENING_FILTER : { Absent, "ON", "OFF", "FREE", "OFF FREE" },
                          COMMENT           : { Absent, "FFF" },
                          SCAN_OFFSET       : { Absent, "0" } ] }

ReturnEnergy == ReturnValue(_energy_from(fn_args))

NextEnergy ==
    \/ EnterFunction
    \/ ReturnEnergy

SpecEnergy == InitFunction(EnergyMetas) /\ [][NextEnergy]_vars

(***************************************************************************)
(* _transform_xy on curves of at most MaxSamples samples                   *)
(***************************************************************************)
MaxSamples == 2

RawXs == { Rat(0, 1), Rat(1, 1) }
RawYs == { Rat(0 - 2, 1), Rat(0, 1), Rat(1, 1), Rat(4, 1) }
ShiftChoices == { Rat(0, 1), Rat(5, 2) }
ScaleChoices == { Rat(1, 1), Rat(2, 1), Rat(0 - 1, 1), Rat(0, 1) }
OffsetChoices == { Rat(0, 1), Rat(0 - 1, 1), Rat(2, 1) }

TransformArgs ==
    [ xs        : SeqsUpTo(RawXs, MaxSamples),
      ys        : SeqsUpTo(RawYs, MaxSamples),
      row       : [ x_shift : ShiftChoices, y_scale : ScaleChoices,
                    y_offset : OffsetChoices ],
      normalize : BOOLEAN ]

ReturnTransform ==
    ReturnValue(_transform_xy(fn_args.xs, fn_args.ys, fn_args.row, fn_args.normalize))

NextTransform ==
    \/ EnterFunction
    \/ ReturnTransform

SpecTransform == InitFunction(TransformArgs) /\ [][NextTransform]_vars

(***************************************************************************)
(* _jaws_from, then _scale_jaw_to_100 on what it returned, as              *)
(* map_meta_to_params and _fov_at_depth_pair call them                     *)
(***************************************************************************)
JawMetas ==
    { MetaOf(c) : c \in [ SSD           : { Absent, "900", "0" },
                          JAW_X         : { Absent, "10" },
                          JAW_Y         : { "20" },
                          FIELD_DEFINED : { Absent, " iso ", "ISOCENTER", "SAD", "SSD",
                                            "DEPTH", "SSD ISO", "DEPTH SSD", "abc" },
                          FIELD_DEPTH   : { Absent, "50" } ] }

\* no depth, 0 mm and 50 mm
GuessDepthsMm == { NoneRat, SomeRat(Rat(0, 1)), SomeRat(Rat(50, 1)) }

JawArgs == [ meta : JawMetas, depth_mm : GuessDepthsMm ]

\* jawx, jawy, d_ref = _jaws_from(...), then the two jaws at the 100 cm plane
JawsScaled(meta, depth_mm_for_guess) ==
    LET jaws == _jaws_from(meta, depth_mm_for_guess)
    IN  [ jawx    |-> jaws.jawx,
          jawy    |-> jaws.jawy,
          d_ref   |-> jaws.d_ref,
          jawx100 |-> _scale_jaw_to_100(jaws.jawx, jaws.d_ref),
          jawy100 |-> _scale_jaw_to_100(jaws.jawy, jaws.d_ref) ]

ReturnJaws == ReturnValue(JawsScaled(fn_args.meta, fn_args.depth_mm))

NextJaws ==
    \/ EnterFunction
    \/ ReturnJaws

SpecJaws == InitFunction(JawArgs) /\ [][NextJaws]_vars

(***************************************************************************)
(* _step_mode_string on headers of continuous and stepped scans            *)
(***************************************************************************)
StepMetas ==
    { MetaOf(c) : c \in [ MEAS_PRESET        : { Absent, "MEAS_CONTINUOUS",
                                                 " meas_continuous ",
                                                 "REFERENCE_DOSEMETER" },
                          SCAN_SPEED_PDD     : { Absent, "0", "10", "abc" },
                          SCAN_SPEED_PROFILE : { Absent, "0", "10,5", "abc" },
                          REF_SCAN_POSITIONS : { Absent, "0;1;2", "0;1;3", "5;5", "5" } ] }

StepArgs == [ meta : StepMetas, measure_kind : { MEASURE_PDD, MEASURE_PROFILE } ]

ReturnStepMode == ReturnValue(_step_mode_string(fn_args.meta, fn_args.measure_kind))

NextStepMode ==
    \/ EnterFunction
    \/ ReturnStepMode

SpecStepMode == InitFunction(StepArgs) /\ [][NextStepMode]_vars

(***************************************************************************)
(* One profile render of a row whose file holds up to MaxCurves inplane    *)
(* curves and at most one crossplane curve                                 *)
(***************************************************************************)
\* curves at 50.00, 50.40 and 100.00 mm, told apart by their samples
RenderInplane == { CurveAt(5000, 1, 1), CurveAt(5040, 2, 2), CurveAt(10000, 3, 3) }
RenderCrossplane == { CurveAt(5000, 4, 4) }

\* lists of curves that are all different
Distinct(seq) == \A i, j \in 1..Len(seq) : i # j => seq[i] # seq[j]

\* what parse_mcc_profiles_all returns: an orientation without curve has no key
RenderProfiles ==
    { [ k \in { o \in { "inplane", "crossplane" } : c[o] # << >> } |-> c[k] ] :
      c \in [ inplane    : { q \in SeqsUpTo(RenderInplane, MaxCurves) : Distinct(q) },
              crossplane : SeqsUpTo(RenderCrossplane, 1) ] }

\* the depth field of the row
RenderDepthTexts == { "", "5.0", "5.0, 5.0", "5.0, 5.04", "5.0, 10.0" }

RenderArgs ==
    [ profiles : RenderProfiles, depth : RenderDepthTexts,
      want_in : BOOLEAN, want_cross : BOOLEAN ]

ReturnRender ==
    ReturnValue(_plot_profiles_for_row(fn_args.profiles, fn_args.depth,
                                       fn_args.want_in, fn_args.want_cross))

NextRender ==
    \/ EnterFunction
    \/ ReturnRender

SpecRender == InitFunction(RenderArgs) /\ [][NextRender]_vars

(***************************************************************************)
(* Claims on the style allocator and the write-through store               *)
(***************************************************************************)
ColorMaps == prefs.glob.color_maps
MarkerMaps == prefs.glob.marker_maps

\* the key _get_color_for files a namespace under
ColorKey(ns) == IF ns # "" THEN ns ELSE "default"

\* every entry of style dict m is an entry of style dict m2
Grows(m, m2) ==
    \A ns \in DOMAIN m :
        /\ ns \in DOMAIN m2
        /\ \A v \in DOMAIN m[ns] : v \in DOMAIN m2[ns] /\ m2[ns][v] = m[ns][v]

\* C1: in every step of the window, whatever the operation, every
\* value-to-symbol entry of the color and marker maps, in memory and in the
\* durable store, is kept as it is: the per-namespace maps only grow.
C1_MapsOnlyGrow ==
    [][ /\ Grows(prefs.glob.color_maps, prefs'.glob.color_maps)
        /\ Grows(prefs.glob.marker_maps, prefs'.glob.marker_maps)
        /\ Grows(disk.glob.color_maps, disk'.glob.color_maps)
        /\ Grows(disk.glob.marker_maps, disk'.glob.marker_maps) ]_vars

\* two values are allocated in one color namespace, a marker is allocated, and
\* a later edit has stored the block of a.mcc
C1_Witness ==
    /\ Cardinality(DOMAIN MapOf(ColorMaps, "fov@depth")) = 2
    /\ Cardinality(DOMAIN MapOf(MarkerMaps, "fov@depth")) >= 1
    /\ "a.mcc" \in DOMAIN prefs.files
    /\ measure_type = MEASURE_PROFILE
    /\ call.op = "none"

\* the raw value as the claim reads it: trimmed, then lower-cased
TrimLower(raw) == StrLower(StrStrip(raw))

\* C2: when an allocator (the marker allocator with a non-empty namespace) is
\* called twice in a row with the same namespace and with raw values equal
\* after trimming and lower-casing, the second call returns the symbol of the
\* first and changes neither the document nor the durable store.
C2_AllocateTwice ==
    [][ ( /\ call.op \in { "color", "marker" }
          /\ call'.op = call.op
          /\ call'.ns = call.ns
          /\ (call.op = "marker" => call.ns # "")
          /\ TrimLower(call'.raw) = TrimLower(call.raw) )
        => ( /\ call'.ret = call.ret
             /\ prefs' = prefs
             /\ disk' = disk ) ]_vars

\* " 6f" was asked for in a namespace where "6" came first: it holds the
\* second color, whichever spelling of it was allocated
C2_Witness ==
    /\ call.op = "color"
    /\ call.ns = "energy"
    /\ call.raw = << " ", "6", "f" >>
    /\ call.ret = OKABE_ITO[2]
    /\ MapOf(ColorMaps, "energy") = (<< "6" >> :> OKABE_ITO[1]) @@ (<< "6", "f" >> :> OKABE_ITO[2])

\* the style dict and pool of the allocator a call went to
CallMaps(p, c) == IF c.op = "color" THEN p.glob.color_maps ELSE p.glob.marker_maps
CallPool(c) == IF c.op = "color" THEN OKABE_ITO ELSE MARKER_POOL
CallKey(c) == IF c.op = "color" THEN ColorKey(c.ns) ELSE c.ns

\* the step is a call that assigned a symbol to a value new to its namespace
NewAssignment ==
    /\ call'.op \in { "color", "marker" }
    /\ (call'.op = "marker" => call'.ns # "")
    /\ TrimLower(call'.raw) \notin DOMAIN MapOf(CallMaps(prefs, call'), CallKey(call'))

\* the symbols the namespace of the call used before the call
UsedBefore == Range(MapOf(CallMaps(prefs, call'), CallKey(call')))

PoolExhausted == \A i \in 1..Len(CallPool(call')) : CallPool(call')[i] \in UsedBefore

\* C3: when every symbol of the pool is in use in the namespace, a new value
\* gets pool[allocation_count mod pool_size], allocation_count being the
\* number of values the namespace already holds.
C3_ForcedReuseCycles ==
    [][ (NewAssignment /\ PoolExhausted)
        => call'.ret =
             CallPool(call')[
                 (Cardinality(DOMAIN MapOf(CallMaps(prefs, call'), CallKey(call')))
                      % Len(CallPool(call'))) + 1 ] ]_vars

\* the first symbol, in pool order, that is not in used
FirstUnused(pool, used) ==
    pool[ CHOOSE i \in 1..Len(pool) :
              pool[i] \notin used /\ \A j \in 1..(i - 1) : pool[j] \in used ]

\* C4: a value new to its namespace, while a pool symbol is still unused
\* there, is assigned the first symbol in pool order that no value of the
\* namespace maps to.
C4_FirstUnusedSymbol ==
    [][ (NewAssignment /\ ~PoolExhausted)
        => ( /\ call'.ret = FirstUnused(CallPool(call'), UsedBefore)
             /\ MapOf(CallMaps(prefs', call'), CallKey(call'))[TrimLower(call'.raw)]
                    = call'.ret ) ]_vars

\* the last free color and the last free marker have both been handed out
C4_Witness ==
    /\ call.op = "marker"
    /\ call.ret = MARKER_POOL[Len(MARKER_POOL)]
    /\ Cardinality(DOMAIN MapOf(MarkerMaps, PoolNamespace)) = Len(MARKER_POOL)
    /\ Cardinality(DOMAIN MapOf(ColorMaps, PoolNamespace)) = Len(OKABE_ITO)
    /\ OKABE_ITO[Len(OKABE_ITO)] \in Range(MapOf(ColorMaps, PoolNamespace))

\* every namespace of style dict m other than key is in m2 with the same map,
\* and m2 has no namespace beyond those of m and key
OthersKept(m, m2, key) ==
    /\ \A ns \in (DOMAIN m) \ { key } : ns \in DOMAIN m2 /\ m2[ns] = m[ns]
    /\ DOMAIN m2 \subseteq (DOMAIN m) \cup { key }

\* C5: a color allocation leaves the color maps of the other namespaces and
\* all marker maps as they were, and a marker allocation leaves the marker
\* maps of the other namespaces and all color maps as they were.
C5_NamespaceIsolation ==
    [][ /\ call'.op = "color"
           => ( /\ OthersKept(prefs.glob.color_maps, prefs'.glob.color_maps,
                              ColorKey(call'.ns))
                /\ prefs'.glob.marker_maps = prefs.glob.marker_maps )
        /\ call'.op = "marker"
           => ( /\ OthersKept(prefs.glob.marker_maps, prefs'.glob.marker_maps, call'.ns)
                /\ prefs'.glob.color_maps = prefs.glob.color_maps ) ]_vars

\* value "6" was just allocated in namespace "energy" and holds there another
\* color than in namespace "fov@depth"
C5_Witness ==
    /\ call.op = "color"
    /\ call.ns = "energy"
    /\ TrimLower(call.raw) = << "6" >>
    /\ << "6" >> \in DOMAIN MapOf(ColorMaps, "fov@depth")
    /\ << "6" >> \in DOMAIN MapOf(ColorMaps, "energy")
    /\ ColorMaps["energy"][<< "6" >>] # ColorMaps["fov@depth"][<< "6" >>]
    /\ ColorMaps["energy"][<< "6" >>] = call.ret

\* C6: a step of the window that changes the preference document leaves the
\* durable store equal to the document.
C6_WriteThrough == [][ prefs' # prefs => disk' = prefs' ]_vars

\* the document holds a color, a marker and the block of a.mcc stored by an
\* include toggle with the field sizes of its two depths, the measure type is
\* profile, and all of it is on disk
C6_Witness ==
    /\ disk = prefs
    /\ MapOf(ColorMaps, "fov@depth") # EmptyDict
    /\ MapOf(MarkerMaps, "fov@depth") # EmptyDict
    /\ "a.mcc" \in DOMAIN prefs.files
    /\ ~prefs.files["a.mcc"].include
    /\ prefs.glob.measure_type = MEASURE_PROFILE
    /\ prefs.files["a.mcc"].params["fov"] = "@5.0 cm : 10.00*10.00 ; @10.0 cm : 10.00*10.00"

\* C7: the marker allocator called with the empty namespace returns "o" and
\* leaves the document, with its marker and color maps, and the durable
\* store as they were.
C7_EmptyMarkerNamespace ==
    [][ (call'.op = "marker" /\ call'.ns = "")
        => ( /\ call'.ret = "o"
             /\ prefs' = prefs
             /\ disk' = disk ) ]_vars

\* the empty namespace was asked for "6F" while the namespace "energy" holds
\* two markers: "o" is returned although "6f" maps to "s" there
C7_Witness ==
    /\ call.op = "marker"
    /\ call.ns = ""
    /\ call.raw = << "6", "F" >>
    /\ call.ret = "o"
    /\ "" \notin DOMAIN MarkerMaps
    /\ MapOf(MarkerMaps, "energy") = (<< "6" >> :> "o") @@ (<< "6", "f" >> :> "s")

(***************************************************************************)
(* Claims on the profile parser                                            *)
(***************************************************************************)
\* the curves a result holds under orientation k
CurvesOf(res, k) == IF k \in DOMAIN res THEN res[k] ELSE << >>

CurveCount(res) == Len(CurvesOf(res, "inplane")) + Len(CurvesOf(res, "crossplane"))

\* the samples of the curves a result holds under orientation k
SamplesOf(res, k) ==
    [ i \in 1..Len(CurvesOf(res, k)) |->
        [ xs |-> CurvesOf(res, k)[i].xs, ys |-> CurvesOf(res, k)[i].ys ] ]

\* the well-formed curves of a file, read off its text: curve j ends at the
\* j-th END_DATA line and starts after the one before
EndIdx(ls) == { i \in 1..Len(ls) : ls[i] = EndLine }

BlockEnd(ls, j) ==
    CHOOSE i \in EndIdx(ls) : Cardinality({ e \in EndIdx(ls) : e <= i }) = j

BlockStart(ls, j) == IF j = 1 THEN 1 ELSE BlockEnd(ls, j - 1) + 1

BlockKind(ls, j) == CHOOSE k \in Kinds : CurveTypeLine(k) = ls[BlockStart(ls, j)]

SamplePairs == (0..2) \X (0..2)

BlockSamples(ls, j) ==
    [ i \in 1..(BlockEnd(ls, j) - BlockStart(ls, j) - 3) |->
        CHOOSE p \in SamplePairs : SampleLine(p) = ls[BlockStart(ls, j) + 2 + i] ]

\* the samples of the curves of orientation k written in the file, in file order
WrittenSamples(ls, k) ==
    LET all  == [ j \in 1..Cardinality(EndIdx(ls)) |->
                    [ kind |-> BlockKind(ls, j),
                      xs   |-> [ i \in DOMAIN BlockSamples(ls, j) |-> BlockSamples(ls, j)[i][1] ],
                      ys   |-> [ i \in DOMAIN BlockSamples(ls, j) |-> BlockSamples(ls, j)[i][2] ] ] ]
        mine == SelectSeq(all, LAMBDA c : c.kind = k)
    IN  [ i \in 1..Len(mine) |-> [ xs |-> mine[i].xs, ys |-> mine[i].ys ] ]

\* C8: parse_mcc_profiles_all on a file made of N well-formed profile curves
\* returns exactly N curves in all, and under each orientation the curves
\* written with that orientation, in file order, each with exactly the
\* samples of its own block.
C8_WellFormedCurves ==
    pc = "done" =>
        /\ CurveCount(result) = Cardinality(EndIdx(lines))
        /\ \A k \in Kinds : SamplesOf(result, k) = WrittenSamples(lines, k)

\* a file of two curves, crossplane first and inplane second, with different
\* samples, has been parsed: one curve under each orientation
C8_Witness ==
    /\ pc = "done"
    /\ Cardinality(EndIdx(lines)) = 2
    /\ BlockKind(lines, 1) = "crossplane"
    /\ BlockKind(lines, 2) = "inplane"
    /\ BlockSamples(lines, 1) # BlockSamples(lines, 2)
    /\ CurveCount(result) = 2
    /\ Len(CurvesOf(result, "inplane")) = 1

\* C9: whatever the lines of the file, a data line adds to the current
\* curve a whole (x, y) pair or nothing, so every curve of the result has as
\* many x values as y values.
C9_WholePairs ==
    \A k \in DOMAIN result :
        \A i \in 1..Len(result[k]) : Len(result[k][i].xs) = Len(result[k][i].ys)

\* a sample line: its first two tokens are both numbers
ValidSample(raw) ==
    LET parts == Split(StrStrip(raw))
    IN  Len(parts) >= 2 /\ FloatOf(parts[1]).ok /\ FloatOf(parts[2]).ok

\* the lines read since the last BEGIN_DATA hold no sample line
NoSampleSinceBegin(ls) ==
    \E b \in 1..Len(ls) :
        /\ ls[b] = BeginLine
        /\ \A i \in (b + 1)..Len(ls) : ls[i] # BeginLine /\ ~ ValidSample(ls[i])

NoEmptyCurve(res) ==
    \A k \in DOMAIN res :
        \A i \in 1..Len(res[k]) : res[k][i].xs # << >> /\ res[k][i].ys # << >>

\* C10: no step of the parser leaves a curve without samples in the result, and
\* a step taken inside a data block that has had no sample line so far (its
\* END_DATA, a SCAN_CURVETYPE that closes it, the end of the file, or any
\* other line) adds no curve, whatever was read before the block.
C10_NoEmptyCurve ==
    [][ /\ NoEmptyCurve(result')
        /\ (in_data /\ NoSampleSinceBegin(lines)
              => CurveCount(result') = CurveCount(result)) ]_vars

\* an inplane directive, then a block holding only the line "5 x", closed by
\* END_DATA, have been read and the parser has returned no curve
C10_Witness ==
    /\ pc = "done"
    /\ Len(lines) >= 4
    /\ lines[1] = InplaneLine
    /\ lines[2] = BeginLine
    /\ lines[3] = HalfSampleLine
    /\ lines[4] = EndLine
    /\ CurveCount(result) = 0

\* the step reads a SCAN_CURVETYPE line or an END_DATA line, or is the end of
\* the input
CommitEvent ==
    \/ pc = "loop" /\ pc' = "done"
    \/ /\ nread' = nread + 1
       /\ lines'[nread'] \in { EndLine, InplaneLine, CrossplaneLine, PddLine }

\* the orientation that is not k
OtherKind(k) == IF k = "inplane" THEN "crossplane" ELSE "inplane"

\* C11: when the parser is in a data block with samples in its buffer and
\* meets END_DATA, a SCAN_CURVETYPE directive or the end of the input, the
\* buffer becomes one more curve, the last one, of the orientation in effect
\* while the samples were read, the curves already there and those of the
\* other orientation stay, and the buffer is empty afterwards.
C11_CommitEvents ==
    [][ (in_data /\ xs # << >> /\ ys # << >> /\ CommitEvent)
        => ( /\ current_kind \in Kinds
             /\ SamplesOf(result', current_kind)
                  = Append(SamplesOf(result, current_kind), [ xs |-> xs, ys |-> ys ])
             /\ SamplesOf(result', OtherKind(current_kind))
                  = SamplesOf(result, OtherKind(current_kind))
             /\ xs' = << >>
             /\ ys' = << >> ) ]_vars

\* a block of inplane samples was closed by a crossplane SCAN_CURVETYPE line
\* and the parser went on to the end of the input: the samples are one inplane
\* curve and nothing else
C11_Witness ==
    /\ pc = "done"
    /\ Len(lines) >= 4
    /\ lines[1] = InplaneLine
    /\ lines[2] = BeginLine
    /\ lines[3] = GoodSampleLine
    /\ lines[4] = CrossplaneLine
    /\ SamplesOf(result, "inplane") = << [ xs |-> << 1 >>, ys |-> << 2 >> ] >>
    /\ SamplesOf(result, "crossplane") = << >>

\* the position of the last BEGIN_DATA line among the first n lines, 0 if none
LastBegin(ls, n) ==
    IF \E b \in 1..n : ls[b] = BeginLine
    THEN CHOOSE b \in 1..n : ls[b] = BeginLine /\ \A i \in (b + 1)..n : ls[i] # BeginLine
    ELSE 0

\* a SCAN_DEPTH line
IsDepthLine(raw) == StartsWith(StrStrip(raw), "SCAN_DEPTH=")

\* the value of the last SCAN_DEPTH line among the first n lines, absent if
\* there is none
DepthBefore(ls, n) ==
    IF \E d \in 1..n : IsDepthLine(ls[d])
    THEN LET d == CHOOSE e \in 1..n :
                    IsDepthLine(ls[e]) /\ \A i \in (e + 1)..n : ~ IsDepthLine(ls[i])
         IN  FloatOf(StrStrip(AfterEq(StrStrip(ls[d]))))
    ELSE NoneFloat

\* the last curve a result holds under orientation k
LastCurve(res, k) == CurvesOf(res, k)[Len(CurvesOf(res, k))]

\* C12: a curve that a step adds to the result carries the depth of the most
\* recent SCAN_DEPTH directive that precedes the BEGIN_DATA of its block,
\* however many curves and orientation changes lie in between, and an absent
\* depth when no SCAN_DEPTH directive precedes the block.
C12_DepthOfBlock ==
    [][ (CurveCount(result') = CurveCount(result) + 1)
        => LastCurve(result', current_kind).depth_mm
             = DepthBefore(lines, LastBegin(lines, nread)) ]_vars


(***************************************************************************)
(* Claims on the module-level functions                                    *)
(***************************************************************************)
\* C13: parse_mcc_pdd returns both sequences present, non-empty and of the
\* same length, or both absent, whatever stands between the first BEGIN_DATA
\* and the first END_DATA.
C13_BothOrNeither ==
    fn_pc = "returned" =>
        \/ /\ fn_ret.xs.some
           /\ fn_ret.ys.some
           /\ fn_ret.xs.v # << >>
           /\ Len(fn_ret.xs.v) = Len(fn_ret.ys.v)
        \/ ~ fn_ret.xs.some /\ ~ fn_ret.ys.some


\* C14: the depth text of map_meta_to_params is the comma-separated list of
\* its entries, the depths in cm; no entry of the text appears twice, and the
\* depths 50.0, 50.0, 100.0 mm give "5.0, 10.0".
C14_DepthTextEntries ==
    fn_pc = "returned" =>
        LET entries == DepthEntries(fn_args) IN
        /\ fn_ret = Join(entries, ", ")
        /\ \A i, j \in 1..Len(entries) : i # j => entries[i] # entries[j]
        /\ (fn_args = << 5000, 5000, 10000 >> => fn_ret = "5.0, 10.0")


\* the jaw dimensions of a header rescaled to the plane at 100 cm, for the
\* field of view at depth_cm
Jaw100(meta, depth_cm) ==
    LET jaws == _jaws_from(meta, SomeRat(RatMul(depth_cm, Rat(10, 1))))
    IN  [ x |-> _scale_jaw_to_100(jaws.jawx, jaws.d_ref),
          y |-> _scale_jaw_to_100(jaws.jawy, jaws.d_ref) ]

\* C15: with the SSD and both jaw dimensions at the 100 cm plane available,
\* the field of view at depth D is jaw100 * (SSD + D) / 100 on each axis;
\* when the SSD or one of the two jaw dimensions is not available, the
\* result is absent.
C15_FovFormula ==
    fn_pc = "returned" =>
        LET ssd == _ssd_cm_from_mm(fn_args.meta)
            jaw == Jaw100(fn_args.meta, fn_args.depth_cm)
        IN  IF ssd.ok /\ jaw.x.ok /\ jaw.y.ok
            THEN /\ fn_ret.ok
                 /\ RatEq(RatMul(fn_ret.fx, Rat(100, 1)),
                          RatMul(jaw.x.v, RatAdd(ssd.v, fn_args.depth_cm)))
                 /\ RatEq(RatMul(fn_ret.fy, Rat(100, 1)),
                          RatMul(jaw.y.v, RatAdd(ssd.v, fn_args.depth_cm)))
            ELSE ~ fn_ret.ok

\* jaws of 10 and 20 cm defined at the isocentre, SSD 90 cm, depth 5 cm: the
\* plane is at 95 cm and the field of view is 9.5 by 19 cm
C15_Witness ==
    /\ fn_pc = "returned"
    /\ fn_args.meta = MetaOf([ SSD |-> "900", JAW_X |-> "10", JAW_Y |-> "20",
                               FIELD_INPLANE |-> Absent, FIELD_CROSSPLANE |-> Absent,
                               FIELD_DEFINED |-> " iso ", FIELD_DEPTH |-> Absent ])
    /\ fn_args.depth_cm = Rat(5, 1)
    /\ fn_ret.ok
    /\ RatEq(fn_ret.fx, Rat(19, 2))
    /\ RatEq(fn_ret.fy, Rat(19, 1))


\* the depth of curve e, divided by 10, lies within 0.05 cm of the target
NearTarget(e, target_cm) ==
    e.depth_mm.ok /\ AbsDiff(e.depth_mm.v, 10 * target_cm) <= 50

\* C16: match_depths selects, in order, exactly the curves whose depth in mm
\* divided by 10 lies within 0.05 cm of the target: never a curve without
\* depth, and nothing at all for a target that no curve is near.
C16_DepthTolerance ==
    fn_pc = "returned" =>
        LET near(e) == NearTarget(e, fn_args.target_cm)
            kept == SelectSeq(fn_args.seq, near)
        IN  fn_ret = [ i \in 1..Len(kept) |-> << kept[i].xs, kept[i].ys >> ]


\* the energy text of a header, trimmed
EnergyText(meta) ==
    MetaStrip(_pick(meta, << "ENERGY", "SCAN_ENERGY", "BEAM_ENERGY", "XRAY_ENERGY" >>).v)

\* a value of the header holds "FFF"
SomeValueHasFFF(meta) == \E k \in DOMAIN meta : Mentions(MetaUpper(meta[k]), "FFF")

\* the value of a flattening-related key mentions both "off" and "free"
FlatteningOffAndFree(meta) ==
    \E k \in DOMAIN meta :
        /\ Mentions(MetaUpper(k), "FLATTENING")
        /\ Mentions(MetaUpper(meta[k]), "OFF")
        /\ Mentions(MetaUpper(meta[k]), "FREE")

\* C17: an energy text that holds "FFF" is returned as it is; one that does
\* not gets " FFF" appended, once, exactly when a value of the header holds
\* "FFF" or the value of a flattening-related key mentions both "off" and
\* "free".
C17_FffSuffix ==
    (fn_pc = "returned" /\ fn_ret.ok) =>
        LET e == EnergyText(fn_args) IN
        IF Mentions(MetaUpper(e), "FFF") THEN fn_ret.v = e
        ELSE IF SomeValueHasFFF(fn_args) \/ FlatteningOffAndFree(fn_args)
        THEN fn_ret.v = e \o " FFF"
        ELSE fn_ret.v = e


(***************************************************************************)
(* Claims on loading and editing rows                                      *)
(***************************************************************************)
\* the step appended rows: add_files ran on a non-empty choice of paths
RowsLoaded ==
    /\ Len(rows') > Len(rows)
    /\ SubSeq(rows', 1, Len(rows)) = rows

\* the persisted text of field k of the file at path, "" where there is none
PersistedField(p, path, k) ==
    IF path \in DOMAIN p.files THEN p.files[path].params[k] ELSE ""

\* C18: when add_files loads a file, every parameter field with a non-empty
\* persisted override holds the persisted value, every other field holds the
\* freshly derived value (or stays empty where nothing is derived), and the
\* persisted per-file blocks and the durable store are as before.
C18_OverridesWin ==
    [][ RowsLoaded =>
          /\ prefs' = prefs
          /\ disk' = disk
          /\ \A i \in (Len(rows) + 1)..Len(rows') :
               LET new  == rows'[i]
                   auto == map_meta_to_params(new.path, FileDepthsMm(new.path),
                                              measure_type)
               IN  \A k \in ParamKeys :
                     IF TextStrip(PersistedField(prefs, new.path, k)) # ""
                     THEN new.params[k] = PersistedField(prefs, new.path, k)
                     ELSE new.params[k] = auto[k] ]_vars

\* a loaded row holds a persisted field of view that differs from the derived
\* one, next to a depth text that was derived because the persisted one is empty
C18_Witness ==
    \E i \in 1..Len(rows) :
        LET row  == rows[i]
            auto == map_meta_to_params(row.path, FileDepthsMm(row.path), measure_type)
        IN  /\ row.path \in DOMAIN prefs.files
            /\ prefs.files[row.path].params["depth"] = ""
            /\ row.params["depth"] = auto["depth"]
            /\ row.params["depth"] # ""
            /\ prefs.files[row.path].params["fov"] # ""
            /\ prefs.files[row.path].params["fov"] # auto["fov"]
            /\ row.params["fov"] = prefs.files[row.path].params["fov"]


\* the step is apply_edit on row i, and field k of the row becomes what the
\* panel holds, or k is the field of view
EditedByPanel(i, k) ==
    \E panel \in EditPanels(rows[i]) :
        /\ rows' = apply_edit(rows, prefs, disk, i, panel).rows
        /\ \/ k = "fov"
           \/ rows'[i].params[k] = TextStrip(panel.params[k])

\* C19: a non-empty parameter field of a row that stays in the table changes
\* only in apply_edit, to the text of the panel or, for the field of view, to
\* the value a depth edit recomputes; no other operation, a switch of the
\* measure mode to profile included, replaces it.
C19_NonEmptyFieldsKept ==
    [][ Len(rows') >= Len(rows) =>
          \A i \in 1..Len(rows) : \A k \in ParamKeys :
              ( /\ TextStrip(rows[i].params[k]) # ""
                /\ rows'[i].params[k] # rows[i].params[k] )
              => EditedByPanel(i, k) ]_vars


\* float() raises on one of the three numeric entries of the panel
NotNumeric(panel) ==
    \/ ~PyFloat(panel.x_shift).ok
    \/ ~PyFloat(panel.y_scale).ok
    \/ ~PyFloat(panel.y_offset).ok

\* apply_edit leaves the rows, the document and the durable store as they are
EditChangesNothing(idx, panel) ==
    LET r == apply_edit(rows, prefs, disk, idx, panel)
    IN  /\ r.rows = rows
        /\ r.prefs = prefs
        /\ r.disk = disk

\* C20: in every state of the window, apply_edit with a non-numeric x_shift,
\* y_scale or y_offset changes no field of the selected row, no persisted
\* per-file block and nothing in the durable store, whatever else the panel
\* holds; apply_edit with no row selected changes nothing either.
C20_RejectedEdit ==
    /\ EditChangesNothing(0, BlankPanel)
    /\ \A idx \in 1..Len(rows) : \A panel \in EditPanels(rows[idx]) :
           NotNumeric(panel) => EditChangesNothing(idx, panel)

\* a row with a persisted block, and a panel with a non-numeric y_offset that
\* holds another include flag and another depth text than the row
C20_Witness ==
    \E idx \in 1..Len(rows) : \E panel \in EditPanels(rows[idx]) :
        /\ rows[idx].path \in DOMAIN prefs.files
        /\ ~PyFloat(panel.y_offset).ok
        /\ panel.include # rows[idx].include
        /\ TextStrip(panel.params["depth"]) # rows[idx].params["depth"]


(***************************************************************************)
(* Claims on rendering                                                     *)
(***************************************************************************)
\* y' of sample i: the offset added, then the scaling
Shaped(i) == RatMul(RatAdd(fn_args.ys[i], fn_args.row.y_offset), fn_args.row.y_scale)

\* the largest y' of the curve is y' of sample m
LargestShaped(m) == \A j \in 1..Len(fn_args.ys) : RatLe(Shaped(j), Shaped(m))

\* C21: _transform_xy keeps the number and the order of the samples; sample i
\* becomes x + x_shift and y' = (y + y_offset) * y_scale; with normalization
\* on, every y' is divided by the largest y' of the curve unless that is zero;
\* with normalization off, or a largest y' of zero, y' is returned as computed.
C21_Transform ==
    fn_pc = "returned" =>
        /\ Len(fn_ret.xs) = Len(fn_args.xs)
        /\ Len(fn_ret.ys) = Len(fn_args.ys)
        /\ \A i \in 1..Len(fn_args.xs) :
               RatEq(fn_ret.xs[i], RatAdd(fn_args.xs[i], fn_args.row.x_shift))
        /\ \A i \in 1..Len(fn_args.ys) : \A m \in 1..Len(fn_args.ys) :
               LargestShaped(m) =>
                   IF fn_args.normalize /\ ~RatIsZero(Shaped(m))
                   THEN RatEq(RatMul(fn_ret.ys[i], Shaped(m)), Shaped(i))
                   ELSE RatEq(fn_ret.ys[i], Shaped(i))

\* a normalized curve of two different samples, shifted, offset and scaled
C21_Witness ==
    /\ fn_pc = "returned"
    /\ fn_args.normalize
    /\ Len(fn_args.ys) = 2
    /\ Len(fn_args.xs) = 2
    /\ fn_args.row.x_shift = Rat(5, 2)
    /\ fn_args.row.y_offset = Rat(2, 1)
    /\ fn_args.row.y_scale = Rat(2, 1)
    /\ fn_ret.ys = << Rat(1, 3), Rat(1, 1) >>


\* the persisted fields of a row, as a block of the store
CopyOf(row) ==
    [ x_shift |-> row.x_shift, y_scale |-> row.y_scale, y_offset |-> row.y_offset,
      include |-> row.include, linestyle |-> row.linestyle, params |-> row.params ]

\* the block of path is new in the store or differs from the one before the step
BlockWritten(path) ==
    \/ path \notin DOMAIN prefs.files
    \/ prefs'.files[path] # prefs.files[path]

\* C22: the store holds copies of rows. A step that removes rows
\* (remove_selected, clear_all) or loads rows (add_files) leaves every per-file
\* block of the document and of the durable store as it is, no block ever
\* disappears, and a block changes only by taking the values that a row of its
\* file holds after the step, that is, when an operation saved that row.
C22_StoreHoldsCopies ==
    [][ /\ Len(rows') # Len(rows) =>
              /\ prefs'.files = prefs.files
              /\ disk'.files = disk.files
        /\ DOMAIN prefs.files \subseteq DOMAIN prefs'.files
        /\ \A path \in DOMAIN prefs'.files :
              BlockWritten(path) =>
                  \E i \in 1..Len(rows') :
                      /\ rows'[i].path = path
                      /\ prefs'.files[path] = CopyOf(rows'[i]) ]_vars

\* the rows are gone and the block of an edited file is still in the document
\* and in the durable store, with the depth the user typed
C22_Witness ==
    /\ rows = << >>
    /\ "a.mcc" \in DOMAIN prefs.files
    /\ prefs.files["a.mcc"].params["depth"] = "5.0"
    /\ ~prefs.files["a.mcc"].include
    /\ disk.files = prefs.files


\* the step reads the line raw
Reads(raw) ==
    /\ nread' = nread + 1
    /\ lines'[nread'] = raw

\* C23: a SCAN_CURVETYPE directive that names neither an inplane nor a
\* crossplane profile leaves the parser without orientation; while there is
\* no orientation the sample buffers are empty and stay empty whatever line
\* is read, and no step, the end of the input included, adds a curve to the
\* result; a recognized directive sets the orientation again.
C23_ClearedOrientation ==
    [][ /\ Reads(PddLine) => current_kind' = NoneKind
        /\ Reads(InplaneLine) => current_kind' = "inplane"
        /\ Reads(CrossplaneLine) => current_kind' = "crossplane"
        /\ current_kind = NoneKind =>
              /\ xs = << >> /\ ys = << >>
              /\ xs' = << >> /\ ys' = << >>
              /\ CurveCount(result') = CurveCount(result) ]_vars

\* an inplane directive, then a directive for a depth-dose curve, then a block
\* with a sample: the parser returned no curve
C23_Witness ==
    /\ pc = "done"
    /\ lines = << InplaneLine, PddLine, BeginLine, GoodSampleLine, EndLine >>
    /\ current_kind = NoneKind
    /\ CurveCount(result) = 0


\* the upper-cased reference definition of the header, "" without one
RefDef(meta) ==
    LET picked == _pick(meta, << "FIELD_DEFINED", "FIELD_REFERENCE", "FIELD_AT" >>)
    IN  MetaUpper(MetaStrip(IF picked.ok THEN picked.v ELSE ""))

\* the reference depth of the header in cm
RefDepthCm(meta) == Tenth(_as_float(_pick(meta, << "FIELD_DEPTH" >>)))

\* the reference-plane distance by the priority of the rule
PlaneByPriority(meta, depth_mm) ==
    LET ssd == _ssd_cm_from_mm(meta)
        ref == RefDef(meta)
    IN  CASE Mentions(ref, "ISO") \/ Mentions(ref, "ISOCENTER") \/ Mentions(ref, "SAD")
               -> SomeRat(Rat(100, 1))
          [] OTHER ->
        CASE Mentions(ref, "SSD") /\ ssd.ok -> ssd
          [] OTHER ->
        CASE Mentions(ref, "DEPTH") /\ ssd.ok /\ RefDepthCm(meta).ok
               -> SomeRat(RatAdd(ssd.v, RefDepthCm(meta).v))
          [] OTHER ->
        CASE ssd.ok /\ depth_mm.ok -> SomeRat(RatAdd(ssd.v, Tenth(depth_mm).v))
          [] ssd.ok /\ ~ depth_mm.ok -> ssd
          [] OTHER -> NoneRat

\* jaw at the 100 cm plane is jaw * 100 / distance, and the raw jaw when the
\* distance is undetermined or zero
ScaledAsClaimed(jaw, jaw100, dist) ==
    IF ~ jaw.ok THEN ~ jaw100.ok
    ELSE IF ~ dist.ok \/ RatIsZero(dist.v) THEN jaw100 = jaw
    ELSE jaw100.ok /\ RatEq(RatMul(jaw100.v, dist.v), RatMul(jaw.v, Rat(100, 1)))

\* C24: the reference-plane distance of _jaws_from is 100 for a definition
\* naming ISO, ISOCENTER or SAD; else the SSD for one naming SSD with the SSD
\* known; else SSD + reference depth for one naming DEPTH with both known;
\* else SSD + evaluated depth, the SSD alone without a depth, and undetermined
\* without SSD. _scale_jaw_to_100 returns jaw * 100 / distance, and the raw
\* jaw when the distance is undetermined or zero.
C24_ReferencePlane ==
    fn_pc = "returned" =>
        LET want == PlaneByPriority(fn_args.meta, fn_args.depth_mm)
        IN  /\ fn_ret.d_ref.ok = want.ok
            /\ want.ok => RatEq(fn_ret.d_ref.v, want.v)
            /\ ScaledAsClaimed(fn_ret.jawx, fn_ret.jawx100, want)
            /\ ScaledAsClaimed(fn_ret.jawy, fn_ret.jawy100, want)

\* a definition naming both SSD and ISO, SSD 90 cm: the plane is at 100 cm and
\* the jaws are returned as they are
C24_Witness ==
    /\ fn_pc = "returned"
    /\ "FIELD_DEFINED" \in DOMAIN fn_args.meta
    /\ fn_args.meta["FIELD_DEFINED"] = "SSD ISO"
    /\ "SSD" \in DOMAIN fn_args.meta
    /\ fn_args.meta["SSD"] = "900"
    /\ "JAW_X" \in DOMAIN fn_args.meta
    /\ fn_ret.d_ref = SomeRat(Rat(100, 1))
    /\ fn_ret.jawx100 = SomeRat(Rat(10, 1))


\* the number held by a speed key of the header, if it holds one
SpeedOf(meta, key) == _as_float(MetaGet(meta, key))

\* C25: in continuous scan mode the text reports the speed of the key of the
\* measure mode (SCAN_SPEED_PDD for depth-dose, SCAN_SPEED_PROFILE for
\* profile) when that key holds a number, else the speed of the other key
\* when that one holds a number, a speed of 0 included, and the text for an
\* unknown speed only when neither key holds a number.
C25_ContinuousSpeed ==
    (fn_pc = "returned" /\ _infer_mode(fn_args.meta) = "continuous") =>
        LET own   == SpeedOf(fn_args.meta,
                             IF fn_args.measure_kind = MEASURE_PDD
                             THEN "SCAN_SPEED_PDD" ELSE "SCAN_SPEED_PROFILE")
            other == SpeedOf(fn_args.meta,
                             IF fn_args.measure_kind = MEASURE_PDD
                             THEN "SCAN_SPEED_PROFILE" ELSE "SCAN_SPEED_PDD")
        IN  IF own.ok
            THEN fn_ret = SomeText("Continu (" \o FmtG(own.v) \o " mm/s)")
            ELSE IF other.ok
            THEN fn_ret = SomeText("Continu (" \o FmtG(other.v) \o " mm/s)")
            ELSE fn_ret = SomeText("Continu (vitesse inconnue)")


\* C26: when the parser meets BEGIN_DATA while it is collecting a block, the
\* result keeps exactly the curves it had, the two buffers become empty and
\* the parser stays in the data state: the samples collected since the
\* previous BEGIN_DATA are dropped and are in no curve from then on.
C26_BeginInsideBlock ==
    [][ (in_data /\ Reads(BeginLine)) =>
          /\ result' = result
          /\ xs' = << >>
          /\ ys' = << >>
          /\ in_data' ]_vars

\* an inplane block with the sample "1 2" was restarted by a second
\* BEGIN_DATA and closed: the parser returned no curve
C26_Witness ==
    /\ pc = "done"
    /\ lines = << InplaneLine, BeginLine, GoodSampleLine, BeginLine, EndLine >>
    /\ CurveCount(result) = 0
    /\ xs = << >>
    /\ ys = << >>


\* the marker variable of the global options g is empty or is not the color
\* variable
MarkerDiffers(g) == g.marker_variable = "" \/ g.marker_variable # g.color_variable

\* C27: in every state of the window the persisted marker variable, in the
\* document and in the durable store, is empty or differs from the persisted
\* color variable; it is the chosen marker variable when that differs from the
\* chosen color variable and empty when the two are the same parameter.
C27_MarkerNotColor ==
    /\ MarkerDiffers(prefs.glob)
    /\ MarkerDiffers(disk.glob)
    /\ prefs.glob.color_variable = color_var_name
    /\ prefs.glob.marker_variable =
           (IF marker_var_name # color_var_name THEN marker_var_name ELSE "")

\* the field of view is chosen as color variable and as marker variable, and
\* the stored marker variable is empty
C27_Witness ==
    /\ color_var_name = "fov"
    /\ marker_var_name = "fov"
    /\ prefs.glob.color_variable = "fov"
    /\ prefs.glob.marker_variable = ""
    /\ disk.glob = prefs.glob


\* how many times the curve e of orientation kind was handed to plt.plot
TimesDrawn(drawn, kind, e) ==
    Cardinality({ i \in 1..Len(drawn) :
                    drawn[i] = [ kind |-> kind, xs |-> e.xs, ys |-> e.ys ] })

\* C28: in one profile render of a row, every curve of the row's file is drawn
\* at most once, whether the target depths come from the depth field of the
\* row or from the depths of the curves themselves.
C28_DrawnAtMostOnce ==
    fn_pc = "returned" =>
        \A kind \in DOMAIN fn_args.profiles :
            \A i \in 1..Len(fn_args.profiles[kind]) :
                TimesDrawn(fn_ret, kind, fn_args.profiles[kind][i]) <= 1


\* the header has a reference definition that resolves to a plane
DefinitionResolves(meta) ==
    LET ssd == _ssd_cm_from_mm(meta)
        ref == RefDef(meta)
    IN  \/ Mentions(ref, "ISO") \/ Mentions(ref, "ISOCENTER") \/ Mentions(ref, "SAD")
        \/ Mentions(ref, "SSD") /\ ssd.ok
        \/ Mentions(ref, "DEPTH") /\ ssd.ok /\ RefDepthCm(meta).ok

\* C29: with the SSD and both raw jaw dimensions in the header and no
\* reference definition that resolves, the field of view _fov_at_depth_pair
\* returns at a depth D with SSD + D not zero is the raw jaw dimension on each
\* axis, whatever D is.
C29_FallbackCancels ==
    fn_pc = "returned" =>
        LET ssd  == _ssd_cm_from_mm(fn_args.meta)
            jaws == _jaws_from(fn_args.meta, NoneRat)
        IN  ( /\ ssd.ok /\ jaws.jawx.ok /\ jaws.jawy.ok
              /\ ~ DefinitionResolves(fn_args.meta)
              /\ ~ RatIsZero(RatAdd(ssd.v, fn_args.depth_cm)) )
            => /\ fn_ret.ok
               /\ RatEq(fn_ret.fx, jaws.jawx.v) /\ fn_ret.ex = 0
               /\ RatEq(fn_ret.fy, jaws.jawy.v) /\ fn_ret.ey = 0


\* the names of the maps of kind that a step created or changed
MapsTouched(kind) ==
    { ns \in DOMAIN prefs'.glob[kind] :
        \/ ns \notin DOMAIN prefs.glob[kind]
        \/ prefs'.glob[kind][ns] # prefs.glob[kind][ns] }

\* the figure has a curve: a row is included and has something to draw
FigureHasCurve ==
    \E i \in 1..Len(rows) :
        /\ rows[i].include
        /\ HasCurves(rows[i], Options)
        /\ measure_type = MEASURE_PROFILE => TargetCmList(rows[i]) # << >>

\* the step is a plot of a figure
Plotted == call' = PlotCall /\ UNCHANGED << rows, optVars >>

\* C30: a plot never creates or changes a color or marker map named "fov";
\* with the field of view as color variable, or as marker variable, the
\* allocation is made under "fov@depth", in profile mode and in depth-dose
\* mode; with an empty color variable it is made under "default".
C30_FovNamespace ==
    [][ Plotted =>
          /\ "fov" \notin MapsTouched("color_maps")
          /\ "fov" \notin MapsTouched("marker_maps")
          /\ FigureHasCurve =>
               /\ TextStrip(color_var_name) = "fov" =>
                    /\ "fov@depth" \in DOMAIN prefs'.glob.color_maps
                    /\ MapsTouched("color_maps") \subseteq { "fov@depth" }
               /\ TextStrip(marker_var_name) = "fov" =>
                    /\ "fov@depth" \in DOMAIN prefs'.glob.marker_maps
                    /\ MapsTouched("marker_maps") \subseteq { "fov@depth" }
               /\ TextStrip(color_var_name) = "" =>
                    /\ "default" \in DOMAIN prefs'.glob.color_maps
                    /\ MapsTouched("color_maps") \subseteq { "default" } ]_vars

\* a figure in profile mode was drawn with the field of view as color and a
\* store that held a map named "fov": the colors went to "fov@depth"
C30_Witness ==
    /\ call = PlotCall
    /\ measure_type = MEASURE_PROFILE
    /\ TextStrip(color_var_name) = "fov"
    /\ \E i \in 1..Len(rows) : rows[i].include
    /\ "fov" \in DOMAIN prefs.glob.color_maps
    /\ "fov@depth" \in DOMAIN prefs.glob.color_maps
    /\ prefs.glob.color_maps["fov@depth"] # EmptyDict

====
